---- MODULE Spec2Model ----
(***************************************************************************)
(* A model of the open-harness agent loop (Agent.run), its tool approval   *)
(* wrapper, the subagent `task` tool and the Session layer (send with      *)
(* retry, hooks and persistence).                                          *)
(*                                                                         *)
(* The language-model stream (the AI SDK's streamText().fullStream), the   *)
(* tools' own execute functions, the hooks and the abort signal are the    *)
(* environment: their outcomes are drawn nondeterministically from small   *)
(* sets.  Everything the repository's own code does with them is modelled  *)
(* from the source.                                                        *)
(***************************************************************************)
EXTENDS Naturals, Integers, Sequences, FiniteSets, TLC

\* ---------------------------------------------------------------- bounds

\* Stream parts consumed by one Agent.run call.
MaxParts == 3
\* Agent.run calls on one Agent instance (the step-loop specification).
MaxRuns == 2
\* Tool calls the model may request in one run.
MaxCalls == 2

\* ----------------------------------------------------------- token usage

\* An optional number (number | undefined): the empty set is `undefined`.
Undefined == {}

Some(n) == {n}

\* x ?? 0
OrZero(x) == IF x = Undefined THEN 0 ELSE CHOOSE n \in x : TRUE

Usage(i, o, t) == [inputTokens |-> i, outputTokens |-> o, totalTokens |-> t]

\* The usage of a done event synthesised after a caught fault.
UnsetUsage == Usage(Undefined, Undefined, Undefined)

\* toTokenUsage: copies the three fields, unset ones included.
toTokenUsage(u) ==
  Usage(u.inputTokens, u.outputTokens, u.totalTokens)

\* Usage records the provider may report.
ProviderUsages ==
  { UnsetUsage, Usage(Some(1), Some(1), Some(2)), Usage(Some(6), Undefined, Some(6)) }

\* ---------------------------------------------------------------- events

EvStepStart(n) == [type |-> "step.start", stepNumber |-> n]
EvTextDelta(t) == [type |-> "text.delta", text |-> t]
EvTextDone(t) == [type |-> "text.done", text |-> t]
EvReasoningDelta(t) == [type |-> "reasoning.delta", text |-> t]
EvReasoningDone(t) == [type |-> "reasoning.done", text |-> t]
EvToolStart(id, name) == [type |-> "tool.start", toolCallId |-> id, toolName |-> name]
EvToolDone(id, name) == [type |-> "tool.done", toolCallId |-> id, toolName |-> name]
EvToolError(id, name, err) ==
  [type |-> "tool.error", toolCallId |-> id, toolName |-> name, error |-> err]
EvStepDone(n, u, fr) ==
  [type |-> "step.done", stepNumber |-> n, usage |-> u, finishReason |-> fr]
EvError(err) == [type |-> "error", error |-> err]
EvDone(res, msgs, u) ==
  [type |-> "done", result |-> res, messages |-> msgs, totalUsage |-> u]

\* ------------------------------------------------------------- messages

\* A message: its role and its content (a tag telling where it came from).
Msg(role, content) == [role |-> role, content |-> content]

\* The two shapes of run's input: a string, or a list of messages.
StringInput(text) == [kind |-> "string", text |-> text]
ListInput(msgs) == [kind |-> "list", msgs |-> msgs]

\* run's first lines: a string input becomes one user message, a message
\* list is appended as it is.
AppendInput(history, input) ==
  IF input.kind = "string"
  THEN Append(history, Msg("user", input.text))
  ELSE history \o input.msgs

\* ------------------------------------------------------ the run generator

\* A variant of FinishResult that knows only two outcomes.
FinishResultStopOrError(finishReason) ==
  IF finishReason = "stop" THEN "complete" ELSE "error"

\* The finish reason of the `finish` part decides the result.
FinishResult(finishReason) ==
  IF finishReason = "stop" THEN "complete"
  ELSE IF finishReason = "tool-calls" THEN "max_steps"
  ELSE IF finishReason = "error" THEN "error"
  ELSE "stopped"

\* The generator of one run call, just after the stream is created.
\*   pc        "streaming" | "returned"
\*   stream    "open" | "errored" (an error part was delivered)
\*             | "finished" (the provider's finish part was delivered)
\*   messages  this.messages
\*   input     the input the call was given
\*   finish    the provider's finish part, once it was delivered
\*   out       the events yielded so far
NoFinish ==
  [ type |-> "none", finishReason |-> "", totalUsage |-> UnsetUsage,
    response |-> << >>, rejected |-> FALSE, error |-> << >> ]

RunBegin(history, input) ==
  [ pc |-> "streaming", stream |-> "open", n |-> 0,
    stepNumber |-> 0, stepText |-> <<>>, stepReasoning |-> <<>>,
    messages |-> AppendInput(history, input), input |-> input,
    finish |-> NoFinish, out |-> <<>> ]

Yield(g, ev) == [g EXCEPT !.out = Append(@, ev), !.n = @ + 1]

Skip(g) == [g EXCEPT !.n = @ + 1]

\* A catch block that reports a history without the new input.
RunCatchDroppingInput(g, err) ==
  [g EXCEPT !.out = @ \o << EvError(err),
                            EvDone("error", SubSeq(g.messages, 1, Len(g.messages) - 1),
                                   UnsetUsage) >>,
            !.pc = "returned"]

\* The catch block of run: an error event, then a synthetic done(error)
\* carrying this.messages and an all-unset usage; the generator returns.
RunCatch(g, err) ==
  [g EXCEPT !.out = @ \o << EvError(err), EvDone("error", g.messages, UnsetUsage) >>,
            !.pc = "returned"]

\* The `finish` case: await stream.response (which may reject, and then the
\* catch block runs), push the response messages, yield done.
RunFinish(g, part) ==
  IF part.rejected
  THEN RunCatch([g EXCEPT !.n = @ + 1, !.stream = "finished", !.finish = part], part.error)
  ELSE LET msgs == g.messages \o part.response
       IN [g EXCEPT !.messages = msgs,
                    !.stream = "finished",
                    !.finish = part,
                    !.n = @ + 1,
                    !.out = Append(@, EvDone(FinishResult(part.finishReason), msgs,
                                             toTokenUsage(part.totalUsage)))]

\* The body of `for await (const part of stream.fullStream) switch (part.type)`.
RunPart(g, part) ==
  CASE part.type = "start-step" ->
         Yield([g EXCEPT !.stepNumber = @ + 1, !.stepText = <<>>, !.stepReasoning = <<>>],
               EvStepStart(g.stepNumber + 1))
    [] part.type = "text-delta" ->
         Yield([g EXCEPT !.stepText = @ \o part.text], EvTextDelta(part.text))
    [] part.type = "text-end" ->
         IF g.stepText # <<>> THEN Yield(g, EvTextDone(g.stepText)) ELSE Skip(g)
    [] part.type = "reasoning-delta" ->
         Yield([g EXCEPT !.stepReasoning = @ \o part.text], EvReasoningDelta(part.text))
    [] part.type = "reasoning-end" ->
         IF g.stepReasoning # <<>> THEN Yield(g, EvReasoningDone(g.stepReasoning)) ELSE Skip(g)
    [] part.type = "tool-call" ->
         Yield(g, EvToolStart(part.toolCallId, part.toolName))
    [] part.type = "tool-result" ->
         Yield(g, EvToolDone(part.toolCallId, part.toolName))
    [] part.type = "tool-error" ->
         Yield(g, EvToolError(part.toolCallId, part.toolName, part.error))
    [] part.type = "finish-step" ->
         Yield(g, EvStepDone(g.stepNumber, toTokenUsage(part.usage), part.finishReason))
    [] part.type = "error" ->
         Yield([g EXCEPT !.stream = "errored"], EvError(part.error))
    [] part.type = "finish" -> RunFinish(g, part)
    [] OTHER -> Skip(g)

\* The stream ends: the for-await loop is left and the generator returns.
RunReturn(g) == [g EXCEPT !.pc = "returned"]

\* The generator before any run call.
IdleGen ==
  [ pc |-> "idle", stream |-> "open", n |-> 0,
    stepNumber |-> 0, stepText |-> <<>>, stepReasoning |-> <<>>,
    messages |-> <<>>, input |-> StringInput(<< "in", 0 >>),
    finish |-> NoFinish, out |-> <<>> ]

\* ------------------------------------------------------- tool approval

CallIds == 1..MaxCalls

\* The tools of the modelled agents; askUser has no execute function.
ToolNames == {"bash", "askUser"}

ToolHasExecute(name) == name # "askUser"

\* class ToolDeniedError: name and message, as String(error) shows them.
ToolDeniedError(toolName) == << "ToolDeniedError", toolName >>

\* The error of a tool's own execute function failing.
ToolFailure(toolName) == << "Error", toolName >>

\* A tool call nobody requested yet.
NoCall == [name |-> "", st |-> "none", invoked |-> FALSE]

\* run: the tools are wrapped when the agent has an approve callback.
\* wrapToolsWithApproval leaves a tool without execute as it is.
IsWrapped(hasApprove, name) == hasApprove /\ ToolHasExecute(name)

\* The SDK calls the (possibly wrapped) execute of a requested tool:
\* a wrapped execute first awaits approve, a plain one is the tool's own.
CallStarted(hasApprove, name) ==
  IF ~ToolHasExecute(name) THEN [name |-> name, st |-> "client", invoked |-> FALSE]
  ELSE IF IsWrapped(hasApprove, name)
       THEN [name |-> name, st |-> "approving", invoked |-> FALSE]
       ELSE [name |-> name, st |-> "executing", invoked |-> TRUE]

\* A wrapper that runs the tool's execute whatever approve answered.
CallApprovedAnyway(call, allowed) ==
  [call EXCEPT !.st = IF allowed THEN "executing" ELSE "denied", !.invoked = TRUE]

\* The wrapped execute after approve resolved: a denial throws
\* ToolDeniedError, an approval calls the original execute.
CallApproved(call, allowed) ==
  IF ~allowed
  THEN [call EXCEPT !.st = "denied"]
  ELSE [call EXCEPT !.st = "executing", !.invoked = TRUE]

\* ------------------------------------------------------------- errors

\* An error is its message, a sequence of words.
ErrRateLimit == << "429" >>
ErrOverloaded == << "Overloaded" >>
ErrAuth == << "invalid", "key" >>
\* The reasons of an abort signal: AbortSignal.abort() and AbortSignal.timeout().
ErrAborted == << "aborted" >>
ErrAbortTimeout == << "aborted", "timeout" >>

\* Faults of the provider's stream.
StreamErrors == { ErrRateLimit, ErrOverloaded, ErrAuth }

\* ------------------------------------------ the provider's stream parts

PText == << "a" >>

\* The parts the provider may deliver at any time.
FreeParts ==
  { [type |-> "start-step"], [type |-> "text-delta", text |-> PText],
    [type |-> "text-end"], [type |-> "reasoning-delta", text |-> PText],
    [type |-> "reasoning-end"], [type |-> "text-start"] }
  \cup { [type |-> "finish-step", usage |-> u, finishReason |-> "stop"] :
           u \in { UnsetUsage, Usage(Some(6), Undefined, Some(6)) } }
  \cup { [type |-> "error", error |-> e] : e \in { ErrRateLimit, ErrAuth } }

\* The provider's last part; stream.response resolves to the messages the
\* call produced, or rejects.  After an error part the finish reason is "error".
FinishParts(stream, tag) ==
  { [type |-> "finish", finishReason |-> fr,
     totalUsage |-> IF fr = "length" THEN Usage(Some(6), Undefined, Some(6))
                    ELSE Usage(Some(1), Some(1), Some(2)),
     response |-> IF fr = "tool-calls" THEN << Msg("assistant", tag), Msg("tool", tag) >>
                  ELSE << Msg("assistant", tag) >>,
     rejected |-> FALSE, error |-> ErrAuth] :
       fr \in IF stream = "errored" THEN { "error" }
              ELSE { "stop", "tool-calls", "error", "length" } }
  \cup { [type |-> "finish", finishReason |-> "error", totalUsage |-> UnsetUsage,
          response |-> << >>, rejected |-> TRUE, error |-> ErrOverloaded] }

\* ------------------------------------------- the step loop (Agent.run)

VARIABLES
  agentMessages,   \* Agent: private messages
  approve,         \* Agent: whether an approve callback is configured
  gen,             \* the generator of the current run call
  toolCalls,       \* call id -> the state of the tool's execute
  runs             \* run calls started on this Agent

runVars == << agentMessages, approve, gen, toolCalls, runs >>

\* The Session (src/src/session.ts).
VARIABLES
  cfg,              \* the SessionOptions the session was built with
  messages,         \* Session.messages
  turns,            \* Session._turns
  totalUsage,       \* Session._totalUsage
  lastInputTokens,  \* Session.lastInputTokens
  saves,            \* what sessionStore.save was called with, in order
  onErrorCalls,     \* the calls of hooks.onError in the current send: the error,
                    \* the attempt, and how many events send had yielded by then
  beforeSendCalls,  \* what hooks.onBeforeSend was called with in the current send
  afterResponseCalls, \* what hooks.onAfterResponse was called with in the current send
  signal,           \* options.signal of the current send: whether it is aborted
  sendPc,           \* where the current send stands
  send,             \* the locals of the current send
  out,              \* the events the latest send yielded
  agentCalls,       \* agent.run invocations of the current send
  partsUsed         \* stream parts the attempts of the current send consumed

sessionVars ==
  << cfg, messages, turns, totalUsage, lastInputTokens, saves, onErrorCalls,
     beforeSendCalls, afterResponseCalls, signal, sendPc, send, out, agentCalls,
     partsUsed >>

\* The agents and the executors of task calls.
VARIABLES
  agents,     \* the Agent objects the program built, by name
  frames,     \* the executors running: the root agent's run and the task calls' children
  observed    \* the calls of onSubagentEvent, in order

taskVars == << agents, frames, observed >>

\* One call of DefaultCompactionStrategy.compact (src/src/session.ts).
VARIABLES
  strategy,     \* the strategy's protectedTokens and minPruneSavings
  context,      \* the CompactionContext compact was called with
  compactPc,    \* "ready" | "summarizing" | "returned" | "threw"
  pruned,       \* compact's local `pruned`, the result of pruneToolResults
  compaction,   \* the CompactionResult compact resolved to
  modelCalls    \* calls of generateText

strategyVars == << strategy, context, compactPc, pruned, compaction, modelCalls >>

\* The loading of the project instructions by the run calls on one Agent
\* (src/src/cli.ts).
VARIABLES
  instructions,        \* Agent.instructions
  systemPrompt,        \* Agent.systemPrompt
  cachedInstructions,  \* Agent.cachedInstructions
  loadCalls,           \* invocations of loadInstructions
  runCalls             \* the run calls started on the Agent, in order

loadVars == << instructions, systemPrompt, cachedInstructions, loadCalls, runCalls >>

vars == << runVars, sessionVars, taskVars, strategyVars, loadVars >>

\* The input of the k-th run call: a string, or (for the first call) a list.
RunInputs(k) ==
  { StringInput(<< "in", k >>) }
  \cup (IF k = 1
        THEN { ListInput(<< Msg("system", << "ctx", k >>), Msg("user", << "in", k >>) >>) }
        ELSE { })

RunInit ==
  /\ agentMessages = << >>
  /\ approve \in BOOLEAN
  /\ gen = IdleGen
  /\ toolCalls = [id \in CallIds |-> NoCall]
  /\ runs = 0

\* run(input): push the input, create the stream.
AgentRun ==
  /\ gen.pc \in { "idle", "returned" }
  /\ runs < MaxRuns
  /\ \E input \in RunInputs(runs + 1) :
       gen' = RunBegin(agentMessages, input)
  /\ agentMessages' = gen'.messages
  /\ toolCalls' = [id \in CallIds |-> NoCall]
  /\ runs' = runs + 1
  /\ UNCHANGED approve
  /\ UNCHANGED << sessionVars, taskVars, strategyVars, loadVars >>

Streaming == gen.pc = "streaming" /\ gen.stream # "finished" /\ gen.n < MaxParts

\* One part of the stream that is not about a tool.
StreamPart ==
  /\ Streaming
  /\ \E part \in FreeParts \cup FinishParts(gen.stream, << "out", runs >>) :
       gen' = RunPart(gen, part)
  /\ agentMessages' = gen'.messages
  /\ UNCHANGED << approve, toolCalls, runs >>
  /\ UNCHANGED << sessionVars, taskVars, strategyVars, loadVars >>

\* The model requests a tool: the tool-call part, and the SDK starts the
\* tool's execute (the wrapped one when the agent has an approve callback).
StreamToolCall ==
  /\ Streaming
  /\ \E id \in CallIds, name \in ToolNames :
       /\ toolCalls[id].st = "none"
       /\ \A j \in CallIds : j < id => toolCalls[j].st # "none"
       /\ gen' = RunPart(gen, [type |-> "tool-call", toolCallId |-> id, toolName |-> name])
       /\ toolCalls' = [toolCalls EXCEPT ![id] = CallStarted(approve, name)]
  /\ UNCHANGED << agentMessages, approve, runs >>
  /\ UNCHANGED << sessionVars, taskVars, strategyVars, loadVars >>

\* The approve callback of a wrapped execute resolves.
ApproveResolves ==
  /\ gen.pc = "streaming"
  /\ \E id \in CallIds, allowed \in BOOLEAN :
       /\ toolCalls[id].st = "approving"
       /\ toolCalls' = [toolCalls EXCEPT ![id] = CallApproved(toolCalls[id], allowed)]
  /\ UNCHANGED << agentMessages, approve, gen, runs >>
  /\ UNCHANGED << sessionVars, taskVars, strategyVars, loadVars >>

\* The SDK reports how a tool's execute ended: tool-result when the tool's
\* own execute returned, tool-error when execute threw (the tool itself, or
\* the wrapper's ToolDeniedError).
StreamToolOutcome ==
  /\ Streaming
  /\ \E id \in CallIds :
       LET c == toolCalls[id] IN
       \/ /\ c.st = "executing"
          /\ gen' = RunPart(gen, [type |-> "tool-result", toolCallId |-> id, toolName |-> c.name])
          /\ toolCalls' = [toolCalls EXCEPT ![id].st = "returned"]
       \/ /\ c.st = "executing"
          /\ gen' = RunPart(gen, [type |-> "tool-error", toolCallId |-> id, toolName |-> c.name,
                                  error |-> ToolFailure(c.name)])
          /\ toolCalls' = [toolCalls EXCEPT ![id].st = "failed"]
       \/ /\ c.st = "denied"
          /\ gen' = RunPart(gen, [type |-> "tool-error", toolCallId |-> id, toolName |-> c.name,
                                  error |-> ToolDeniedError(c.name)])
          /\ toolCalls' = [toolCalls EXCEPT ![id].st = "refused"]
  /\ UNCHANGED << agentMessages, approve, runs >>
  /\ UNCHANGED << sessionVars, taskVars, strategyVars, loadVars >>

\* The stream throws: run's catch block.
StreamThrows ==
  /\ gen.pc = "streaming"
  /\ gen.stream # "finished"
  /\ \E err \in StreamErrors : gen' = RunCatch(gen, err)
  /\ UNCHANGED << agentMessages, approve, toolCalls, runs >>
  /\ UNCHANGED << sessionVars, taskVars, strategyVars, loadVars >>

\* The stream ends.
StreamEnds ==
  /\ gen.pc = "streaming"
  /\ gen' = RunReturn(gen)
  /\ UNCHANGED << agentMessages, approve, toolCalls, runs >>
  /\ UNCHANGED << sessionVars, taskVars, strategyVars, loadVars >>

RunNext ==
  \/ AgentRun
  \/ StreamPart
  \/ StreamToolCall
  \/ ApproveResolves
  \/ StreamToolOutcome
  \/ StreamThrows
  \/ StreamEnds

\* ------------------------------------------------------- retry helpers

\* error.message.toLowerCase(), word by word.
Lower(word) == IF word = "Overloaded" THEN "overloaded" ELSE word

\* The patterns isRetryableError looks for in the lower-cased message.
RetryablePatterns ==
  { "429", "500", "502", "503", "504", "529",
    "rate limit", "timeout", "econnreset", "overloaded" }

isRetryableError(error) ==
  \E i \in 1..Len(error) : Lower(error[i]) \in RetryablePatterns

\* ------------------------------------------------------------ the Session

\* Retry budgets (retry.maxRetries) the modelled sessions are built with.
MaxRetriesCfg == 1
\* send calls on one Session.
MaxTurns == 3
\* Stream parts the attempts of one send consume, all together.
MaxSendParts == 2
\* The context window (options.contextWindow) of the sessions built with one.
ContextWindowCfg == 10
\* The reserved output tokens (options.reservedTokens) of those sessions.
ReservedTokensCfg == 4
\* The input-token count a finish-step part of the provider may report; it
\* is the compaction threshold of those sessions.
StepInputTokens == ContextWindowCfg - ReservedTokensCfg

EvTurnStart(n) == [type |-> "turn.start", turnNumber |-> n]
\* A turn.done that carries the number of the turn to come.
EvTurnDoneOfNext(n, u) == [type |-> "turn.done", turnNumber |-> n + 1, usage |-> u]
EvTurnDone(n, u) == [type |-> "turn.done", turnNumber |-> n, usage |-> u]
EvRetry(attempt, maxRetries, err) ==
  [type |-> "retry", attempt |-> attempt, maxRetries |-> maxRetries, error |-> err]
\* The compaction events (their token estimates are left out).
EvCompactionStart(reason) == [type |-> "compaction.start", reason |-> reason]
EvCompactionPruned(tokensRemoved, messagesRemoved) ==
  [type |-> "compaction.pruned", tokensRemoved |-> tokensRemoved,
   messagesRemoved |-> messagesRemoved]
EvCompactionSummary(summary) == [type |-> "compaction.summary", summary |-> summary]
EvCompactionDone == [type |-> "compaction.done"]

\* A total that holds the usage of the latest turn only.
addUsageLatest(a, b) ==
  Usage(Some(OrZero(b.inputTokens)), Some(OrZero(b.outputTokens)),
        Some(OrZero(b.totalTokens)))

\* addUsage: every field becomes a number, an unset one counting as 0.
addUsage(a, b) ==
  Usage(Some(OrZero(a.inputTokens) + OrZero(b.inputTokens)),
        Some(OrZero(a.outputTokens) + OrZero(b.outputTokens)),
        Some(OrZero(a.totalTokens) + OrZero(b.totalTokens)))

\* An onBeforeSend hook of the kind the README shows: it filters stale
\* messages out (here: every message but the latest one).
BeforeSendHook(msgs) ==
  IF Len(msgs) <= 1 THEN msgs ELSE << msgs[Len(msgs)] >>



\* An onError hook that asks for rate-limit errors to be suppressed: it
\* returns true for them and nothing for any other error.
OnErrorHook(error, attempt) ==
  IF error = ErrRateLimit THEN Some(TRUE) ELSE Undefined

\* The TurnInfo onAfterResponse is called with.
TurnInfo(turnNumber, msgs, usage) ==
  [turnNumber |-> turnNumber, messages |-> msgs, usage |-> usage]

\* The reasons an aborted signal may carry.
AbortReasons == { ErrAborted, ErrAbortTimeout }

\* The compaction options a session may be built with: contextWindow
\* (unset, 0 or a window), autoCompact (unset, or explicitly true/false) and
\* shouldCompact (unset, or a predicate that always answers the same).
NoCompactionOptions ==
  [ contextWindow |-> Undefined, autoCompact |-> Undefined, shouldCompact |-> "unset" ]

CompactionOptions ==
  { [ contextWindow |-> Some(ContextWindowCfg), autoCompact |-> Undefined, shouldCompact |-> f ] :
      f \in { "true", "false" } }
  \cup { [ contextWindow |-> Some(ContextWindowCfg), autoCompact |-> Some(FALSE),
           shouldCompact |-> "unset" ],
         [ contextWindow |-> Some(0), autoCompact |-> Undefined, shouldCompact |-> "unset" ],
         [ contextWindow |-> Undefined, autoCompact |-> Some(TRUE), shouldCompact |-> "true" ] }

\* The constructor: the options become the session's fields; autoCompact
\* defaults to "a context window was given".
NewSession(options) ==
  [ maxRetries |-> options.maxRetries,
    onBeforeSend |-> options.onBeforeSend,
    onAfterResponse |-> options.onAfterResponse,
    sessionStore |-> options.sessionStore,
    contextWindow |-> options.contextWindow,
    reservedTokens |-> ReservedTokensCfg,
    autoCompact |-> IF options.autoCompact = Undefined
                    THEN options.contextWindow # Undefined
                    ELSE CHOOSE b \in options.autoCompact : TRUE,
    shouldCompactFn |-> options.shouldCompact ]

SessionOptionsOf(n, h, c) ==
  [ maxRetries |-> n, onBeforeSend |-> h, onAfterResponse |-> h, sessionStore |-> h,
    contextWindow |-> c.contextWindow, autoCompact |-> c.autoCompact,
    shouldCompact |-> c.shouldCompact ]

\* The compaction options of a session with a window and nothing else set.
WindowOptions ==
  [ contextWindow |-> Some(ContextWindowCfg), autoCompact |-> Undefined,
    shouldCompact |-> "unset" ]

\* The sessions the model builds: retry budget, hooks and store, where the
\* session with the full retry budget and no hooks has a context window;
\* and the other compaction options without retries.
SessionConfigs ==
  { NewSession(SessionOptionsOf(n, h, IF n = MaxRetriesCfg /\ ~h THEN WindowOptions
                                      ELSE NoCompactionOptions)) :
      n \in 0..MaxRetriesCfg, h \in BOOLEAN }
  \cup { NewSession(SessionOptionsOf(0, FALSE, c)) : c \in CompactionOptions }

\* A context window that is unset or 0 is falsy.
HasContextWindow(c) == c.contextWindow # Undefined /\ c.contextWindow # Some(0)

\* A trigger that consults the threshold as well as the custom predicate.
shouldCompactCheckEither(c, lastInput) ==
  /\ HasContextWindow(c)
  /\ \/ c.shouldCompactFn = "true"
     \/ lastInput >= OrZero(c.contextWindow) - c.reservedTokens

\* shouldCompactCheck: false without a context window; the custom
\* predicate's answer when there is one; else the threshold test.
shouldCompactCheck(c, lastInput) ==
  IF ~HasContextWindow(c) THEN FALSE
  ELSE IF c.shouldCompactFn # "unset" THEN c.shouldCompactFn = "true"
  ELSE lastInput >= OrZero(c.contextWindow) - c.reservedTokens

\* The auto-compaction check of send.
AutoCompacts(c, lastInput) ==
  c.autoCompact /\ HasContextWindow(c) /\ shouldCompactCheck(c, lastInput)

\* What a compaction strategy may resolve to for a history: a pruning that
\* keeps every message, or one summary message in place of the history,
\* with the pruned-token count the strategy reports.
CompactionResults(msgs, turn) ==
  { [ messages |-> msgs, summary |-> Undefined, messagesRemoved |-> 0, tokensPruned |-> t ] :
      t \in { 0, 1 } }
  \cup { [ messages |-> << Msg("user", << "summary", turn >>) >>,
           summary |-> Some(<< "summary", turn >>),
           messagesRemoved |-> Len(msgs) - 1, tokensPruned |-> 1 ] }

\* A compaction pass that announces itself a second time before it is done.
CompactionEventsRestarting(result) ==
  << EvCompactionStart("overflow"), EvCompactionDone >>

\* The events compact yields after compaction.start, once the strategy
\* resolved.
CompactionEvents(result) ==
  (IF result.tokensPruned > 0
   THEN << EvCompactionPruned(result.tokensPruned, result.messagesRemoved) >> ELSE << >>)
  \o (IF result.summary # Undefined
      THEN << EvCompactionSummary(CHOOSE x \in result.summary : TRUE) >> ELSE << >>)
  \o << EvCompactionDone >>

NoSend ==
  [ input |-> StringInput(<< "in", 0 >>), turnNumber |-> 0,
    effectiveMessages |-> << >>, snapshot |-> << >>, turnUsage |-> UnsetUsage,
    attempt |-> 0, hasYieldedContent |-> FALSE, suppressed |-> Undefined ]

SessionInit ==
  /\ cfg \in SessionConfigs
  /\ messages = << >>
  /\ turns = 0
  /\ totalUsage = Usage(Some(0), Some(0), Some(0))
  /\ lastInputTokens = 0
  /\ saves = << >>
  /\ onErrorCalls = << >>
  /\ beforeSendCalls = << >>
  /\ afterResponseCalls = << >>
  /\ signal = FALSE
  /\ sendPc = "idle"
  /\ send = NoSend
  /\ out = << >>
  /\ agentCalls = 0
  /\ partsUsed = 0

\* A turn counter that does not move.
NextTurnStuck(t) == t

\* this._turns++
NextTurn(t) == t + 1

\* send, up to the first call of agent.run: count the turn, yield
\* turn.start, apply onBeforeSend, take the snapshot, enter the retry loop
\* with attempt 0.  (The case in which the auto-compaction check is false.)
SendBegin(input) ==
  LET effective == IF cfg.onBeforeSend THEN BeforeSendHook(messages) ELSE messages
  IN [ input |-> input, turnNumber |-> NextTurn(turns),
       effectiveMessages |-> effective, snapshot |-> messages,
       turnUsage |-> UnsetUsage, attempt |-> 0, hasYieldedContent |-> FALSE,
       suppressed |-> Undefined ]

\* send, from the end of its compaction to the first call of agent.run:
\* the hook and the snapshot work on the compacted messages.
SendAfterCompaction(s, msgs) ==
  LET effective == IF cfg.onBeforeSend THEN BeforeSendHook(msgs) ELSE msgs
  IN [ s EXCEPT !.effectiveMessages = effective, !.snapshot = msgs ]

\* The head of the retry loop: a fresh attempt calls agent.run on the
\* effective messages and the input.
AttemptBegin(s, attempt) ==
  [s EXCEPT !.attempt = attempt, !.hasYieldedContent = FALSE]

\* A retry condition that keeps one attempt of the budget in reserve.
ShouldRetrySparing(s, error) ==
  /\ ~s.hasYieldedContent
  /\ isRetryableError(error)
  /\ s.attempt + 1 < cfg.maxRetries

\* The condition under which an error is retried instead of forwarded.
ShouldRetry(s, error) ==
  /\ ~s.hasYieldedContent
  /\ isRetryableError(error)
  /\ s.attempt < cfg.maxRetries

\* A retry that keeps what the failed attempt ran on.
RetryKeepsAttempt(s) == AppendInput(s.effectiveMessages, s.input)

\* What a retry resets session.messages to.
RetryMessages(s) == s.snapshot

\* A session that keeps its own history and adopts only what the attempt
\* added to the messages it ran on.
DoneMessagesOnHistory(e) ==
  send.snapshot \o SubSeq(e.messages, Len(send.effectiveMessages) + 1, Len(e.messages))

\* What the session adopts from the agent's done event.
DoneMessages(e) == e.messages

\* The state the body of send's for-await loop works on.
LoopState ==
  [ pc |-> sendPc, send |-> send, messages |-> messages,
    lastInputTokens |-> lastInputTokens, out |-> out, onErrorCalls |-> onErrorCalls ]

\* A loop body that remembers what the steps of a retried attempt reported
\* and adds it to the usage of the attempt that ends the turn.
OnAgentEventCountingSteps(st, e) ==
  LET s1 == IF e.type \in { "text.delta", "tool.start" }
            THEN [st EXCEPT !.send.hasYieldedContent = TRUE] ELSE st
      s2 == IF e.type = "step.done"
            THEN [s1 EXCEPT !.lastInputTokens = OrZero(e.usage.inputTokens),
                            !.send.turnUsage = e.usage] ELSE s1
  IN IF e.type = "error" /\ ShouldRetry(s2.send, e.error)
     THEN [s2 EXCEPT !.onErrorCalls = Append(@, << e.error, s2.send.attempt, Len(s2.out) >>),
                     !.send.suppressed = OnErrorHook(e.error, s2.send.attempt),
                     !.out = Append(@, EvRetry(s2.send.attempt, cfg.maxRetries, e.error)),
                     !.messages = RetryMessages(s2.send),
                     !.pc = "sleeping"]
     ELSE IF e.type = "done"
     THEN [s2 EXCEPT !.messages = DoneMessages(e),
                     !.send.turnUsage = IF s2.send.attempt = 0 THEN e.totalUsage
                                        ELSE addUsage(@, e.totalUsage),
                     !.out = Append(@, e),
                     !.pc = "after"]
     ELSE [s2 EXCEPT !.out = Append(@, e)]

\* A loop body that forwards every event, the error that is retried too.
OnAgentEventForwarding(st, e) ==
  LET s1 == IF e.type \in { "text.delta", "tool.start" }
            THEN [st EXCEPT !.send.hasYieldedContent = TRUE] ELSE st
      s2 == IF e.type = "step.done"
            THEN [s1 EXCEPT !.lastInputTokens = OrZero(e.usage.inputTokens)] ELSE s1
  IN IF e.type = "error" /\ ShouldRetry(s2.send, e.error)
     THEN [s2 EXCEPT !.onErrorCalls = Append(@, << e.error, s2.send.attempt, Len(s2.out) + 1 >>),
                     !.send.suppressed = OnErrorHook(e.error, s2.send.attempt),
                     !.out = @ \o << e, EvRetry(s2.send.attempt, cfg.maxRetries, e.error) >>,
                     !.messages = RetryMessages(s2.send),
                     !.pc = "sleeping"]
     ELSE IF e.type = "done"
     THEN [s2 EXCEPT !.messages = DoneMessages(e),
                     !.send.turnUsage = e.totalUsage,
                     !.out = Append(@, e),
                     !.pc = "after"]
     ELSE [s2 EXCEPT !.out = Append(@, e)]

\* The body of `for await (const event of this.agent.run(...))`.
OnAgentEvent(st, e) ==
  LET s1 == IF e.type \in { "text.delta", "tool.start" }
            THEN [st EXCEPT !.send.hasYieldedContent = TRUE] ELSE st
      s2 == IF e.type = "step.done"
            THEN [s1 EXCEPT !.lastInputTokens = OrZero(e.usage.inputTokens)] ELSE s1
  IN IF e.type = "error" /\ ShouldRetry(s2.send, e.error)
     THEN [s2 EXCEPT !.onErrorCalls = Append(@, << e.error, s2.send.attempt, Len(s2.out) >>),
                     !.send.suppressed = OnErrorHook(e.error, s2.send.attempt),
                     !.out = Append(@, EvRetry(s2.send.attempt, cfg.maxRetries, e.error)),
                     !.messages = RetryMessages(s2.send),
                     !.pc = "sleeping"]
     ELSE IF e.type = "done"
     THEN [s2 EXCEPT !.messages = DoneMessages(e),
                     !.send.turnUsage = e.totalUsage,
                     !.out = Append(@, e),
                     !.pc = "after"]
     ELSE [s2 EXCEPT !.out = Append(@, e)]

\* The loop over the events one step of the agent's generator yields; a
\* break (retry, done) leaves the rest unread.
RECURSIVE OnAgentEvents(_, _)
OnAgentEvents(st, evs) ==
  IF evs = << >> \/ st.pc # "running" THEN st
  ELSE OnAgentEvents(OnAgentEvent(st, Head(evs)), Tail(evs))

\* The parts the provider may deliver to an attempt of a send.
AttemptParts(stream, tag) ==
  { [type |-> "start-step"], [type |-> "text-delta", text |-> PText],
    [type |-> "tool-call", toolCallId |-> 1, toolName |-> "bash"] }
  \cup { [type |-> "finish-step", usage |-> u, finishReason |-> "stop"] :
           u \in { UnsetUsage, Usage(Some(StepInputTokens), Undefined, Some(StepInputTokens)) } }
  \cup { [type |-> "error", error |-> e] : e \in { ErrRateLimit, ErrAuth } }
  \cup { p \in FinishParts(stream, tag) : p.finishReason \in { "stop", "error" } }

\* The generator after one more step of the provider's stream: a part, a
\* thrown fault, or the end of the stream.
StreamSteps(g, tag, partsLeft) ==
  { RunPart(g, part) :
      part \in IF partsLeft > 0 /\ g.stream # "finished"
               THEN AttemptParts(g.stream, tag) ELSE { } }
  \cup { RunCatch(g, err) :
           err \in IF g.stream # "finished" THEN { ErrOverloaded, ErrAuth } ELSE { } }
  \cup { RunReturn(g) }

NewEvents(g, g2) == SubSeq(g2.out, Len(g.out) + 1, Len(g2.out))

\* The input of the k-th send call (a string).
SendInputs(k) == { StringInput(<< "in", k >>) }

\* send(input) is called: the turn is counted and turn.start is yielded;
\* then either compact is entered (it yields compaction.start and awaits
\* the strategy) or the retry loop is, with the first call of agent.run.
Send ==
  /\ sendPc = "idle"
  /\ turns < MaxTurns
  /\ \E input \in SendInputs(turns + 1) :
       /\ send' = SendBegin(input)
       /\ IF AutoCompacts(cfg, lastInputTokens)
          THEN /\ out' = << EvTurnStart(send'.turnNumber), EvCompactionStart("overflow") >>
               /\ sendPc' = "compacting"
               /\ agentCalls' = 0
               /\ UNCHANGED gen
          ELSE /\ out' = << EvTurnStart(send'.turnNumber) >>
               /\ sendPc' = "running"
               /\ agentCalls' = 1
               /\ gen' = RunBegin(send'.effectiveMessages, input)
  /\ turns' = NextTurn(turns)
  /\ onErrorCalls' = << >>
  /\ beforeSendCalls' = IF cfg.onBeforeSend /\ ~AutoCompacts(cfg, lastInputTokens)
                        THEN << messages >> ELSE << >>
  /\ afterResponseCalls' = << >>
  /\ signal' = FALSE
  /\ partsUsed' = 0
  /\ UNCHANGED << cfg, messages, totalUsage, lastInputTokens, saves >>
  /\ UNCHANGED << agentMessages, approve, toolCalls, runs >>
  /\ UNCHANGED << taskVars, strategyVars, loadVars >>

\* The compaction strategy resolves: compact yields its remaining events
\* and replaces the messages; send goes on to the hook, the snapshot and
\* the first call of agent.run.
CompactResolves ==
  /\ sendPc = "compacting"
  /\ \E result \in CompactionResults(messages, turns) :
       /\ out' = out \o CompactionEvents(result)
       /\ messages' = result.messages
       /\ send' = SendAfterCompaction(send, result.messages)
       /\ beforeSendCalls' = IF cfg.onBeforeSend THEN << result.messages >> ELSE << >>
       /\ gen' = RunBegin(send'.effectiveMessages, send.input)
  /\ agentCalls' = 1
  /\ sendPc' = "running"
  /\ UNCHANGED afterResponseCalls
  /\ UNCHANGED << cfg, turns, totalUsage, lastInputTokens, saves, onErrorCalls,
                  signal, partsUsed >>
  /\ UNCHANGED << agentMessages, approve, toolCalls, runs >>
  /\ UNCHANGED << taskVars, strategyVars, loadVars >>

\* A send that swallows the rejection of the compaction and goes on to the
\* retry loop with the messages it has.
CompactRejectsResumes ==
  /\ sendPc = "compacting"
  /\ sendPc' = "running"
  /\ agentCalls' = 1
  /\ gen' = RunBegin(send.effectiveMessages, send.input)
  /\ UNCHANGED << cfg, messages, turns, totalUsage, lastInputTokens, saves,
                  onErrorCalls, signal, send, out, partsUsed >>
  /\ UNCHANGED << beforeSendCalls, afterResponseCalls >>
  /\ UNCHANGED << agentMessages, approve, toolCalls, runs >>
  /\ UNCHANGED << taskVars, strategyVars, loadVars >>

\* The compaction strategy or the onCompaction hook rejects (a model call
\* failed or was aborted): the rejection leaves compact and send.
CompactRejects ==
  /\ sendPc = "compacting"
  /\ sendPc' = "threw"
  /\ UNCHANGED << cfg, messages, turns, totalUsage, lastInputTokens, saves,
                  onErrorCalls, signal, send, out, agentCalls, partsUsed >>
  /\ UNCHANGED << beforeSendCalls, afterResponseCalls >>
  /\ UNCHANGED runVars
  /\ UNCHANGED << taskVars, strategyVars, loadVars >>

\* The agent's generator moves one step and the loop body of send handles
\* what it yields.
AttemptStep ==
  /\ sendPc = "running"
  /\ gen.pc = "streaming"
  /\ \E g2 \in StreamSteps(gen, << "out", turns, send.attempt >>, MaxSendParts - partsUsed) :
       LET st == OnAgentEvents(LoopState, NewEvents(gen, g2))
           left == st.pc # "running"
       IN /\ gen' = IF left THEN RunReturn(g2) ELSE g2
          /\ partsUsed' = partsUsed + (g2.n - gen.n)
          /\ sendPc' = IF ~left /\ g2.pc = "returned" THEN "after" ELSE st.pc
          /\ send' = st.send
          /\ messages' = st.messages
          /\ lastInputTokens' = st.lastInputTokens
          /\ out' = st.out
          /\ onErrorCalls' = st.onErrorCalls
  /\ UNCHANGED << cfg, turns, totalUsage, saves, signal, agentCalls >>
  /\ UNCHANGED << beforeSendCalls, afterResponseCalls >>
  /\ UNCHANGED << agentMessages, approve, toolCalls, runs >>
  /\ UNCHANGED << taskVars, strategyVars, loadVars >>

\* The caller aborts the signal it passed to send.  (An abort while the
\* agent streams reaches send as a fault of the stream, which StreamSteps
\* already allows; the signal itself is read by sleep only.)
Abort ==
  /\ sendPc = "sleeping"
  /\ ~signal
  /\ signal' = TRUE
  /\ UNCHANGED << cfg, messages, turns, totalUsage, lastInputTokens, saves,
                  onErrorCalls, sendPc, send, out, agentCalls, partsUsed >>
  /\ UNCHANGED << beforeSendCalls, afterResponseCalls >>
  /\ UNCHANGED runVars
  /\ UNCHANGED << taskVars, strategyVars, loadVars >>

\* sleep(delayMs, signal) resolves: shouldRetry, break, continue; the next
\* attempt calls agent.run again.
SleepResolves ==
  /\ sendPc = "sleeping"
  /\ ~signal
  /\ send' = AttemptBegin(send, send.attempt + 1)
  /\ gen' = RunBegin(send.effectiveMessages, send.input)
  /\ agentCalls' = agentCalls + 1
  /\ sendPc' = "running"
  /\ UNCHANGED << cfg, messages, turns, totalUsage, lastInputTokens, saves,
                  onErrorCalls, signal, out, partsUsed >>
  /\ UNCHANGED << beforeSendCalls, afterResponseCalls >>
  /\ UNCHANGED << agentMessages, approve, toolCalls, runs >>
  /\ UNCHANGED << taskVars, strategyVars, loadVars >>

\* sleep rejects with the signal's reason inside the try block: the catch
\* block of send either retries (and its own sleep is awaited next) or
\* rethrows.
SleepRejects ==
  /\ sendPc = "sleeping"
  /\ signal
  /\ \E reason \in AbortReasons :
       IF ShouldRetry(send, reason)
       THEN /\ onErrorCalls' = Append(onErrorCalls, << reason, send.attempt, Len(out) >>)
            /\ out' = Append(out, EvRetry(send.attempt, cfg.maxRetries, reason))
            /\ messages' = RetryMessages(send)
            /\ sendPc' = "sleepingInCatch"
       ELSE /\ sendPc' = "threw"
            /\ UNCHANGED << onErrorCalls, out, messages >>
  /\ UNCHANGED << cfg, turns, totalUsage, lastInputTokens, saves, signal, send,
                  agentCalls, partsUsed >>
  /\ UNCHANGED << beforeSendCalls, afterResponseCalls >>
  /\ UNCHANGED runVars
  /\ UNCHANGED << taskVars, strategyVars, loadVars >>

\* A send that persists the messages before it throws.
CatchSleepRejectsSaving ==
  /\ sendPc = "sleepingInCatch"
  /\ signal
  /\ sendPc' = "threw"
  /\ saves' = IF cfg.sessionStore THEN Append(saves, messages) ELSE saves
  /\ UNCHANGED << cfg, messages, turns, totalUsage, lastInputTokens,
                  onErrorCalls, signal, send, out, agentCalls, partsUsed >>
  /\ UNCHANGED << beforeSendCalls, afterResponseCalls >>
  /\ UNCHANGED runVars
  /\ UNCHANGED << taskVars, strategyVars, loadVars >>

\* The sleep of the catch block rejects at once (the signal is aborted):
\* send throws the reason.
CatchSleepRejects ==
  /\ sendPc = "sleepingInCatch"
  /\ signal
  /\ sendPc' = "threw"
  /\ UNCHANGED << cfg, messages, turns, totalUsage, lastInputTokens, saves,
                  onErrorCalls, signal, send, out, agentCalls, partsUsed >>
  /\ UNCHANGED << beforeSendCalls, afterResponseCalls >>
  /\ UNCHANGED runVars
  /\ UNCHANGED << taskVars, strategyVars, loadVars >>

\* A send that leaves the hook out.
AfterResponseSkipped ==
  /\ sendPc = "after"
  /\ sendPc' = "saving"
  /\ UNCHANGED << cfg, messages, turns, totalUsage, lastInputTokens, saves,
                  onErrorCalls, signal, send, out, agentCalls, partsUsed >>
  /\ UNCHANGED << beforeSendCalls, afterResponseCalls >>
  /\ UNCHANGED runVars
  /\ UNCHANGED << taskVars, strategyVars, loadVars >>

\* After the retry loop: the onAfterResponse hook, when there is one, is
\* called with the turn number, the messages and the usage of the turn.
AfterResponse ==
  /\ sendPc = "after"
  /\ afterResponseCalls' =
       IF cfg.onAfterResponse
       THEN Append(afterResponseCalls, TurnInfo(send.turnNumber, messages, send.turnUsage))
       ELSE afterResponseCalls
  /\ sendPc' = "saving"
  /\ UNCHANGED << cfg, messages, turns, totalUsage, lastInputTokens, saves,
                  onErrorCalls, signal, send, out, agentCalls, partsUsed >>
  /\ UNCHANGED beforeSendCalls
  /\ UNCHANGED runVars
  /\ UNCHANGED << taskVars, strategyVars, loadVars >>

\* The hook resolved: sessionStore.save, when there is a store, is called
\* with the messages.
Save ==
  /\ sendPc = "saving"
  /\ saves' = IF cfg.sessionStore THEN Append(saves, messages) ELSE saves
  /\ sendPc' = "accumulating"
  /\ UNCHANGED << cfg, messages, turns, totalUsage, lastInputTokens,
                  onErrorCalls, signal, send, out, agentCalls, partsUsed >>
  /\ UNCHANGED << beforeSendCalls, afterResponseCalls >>
  /\ UNCHANGED runVars
  /\ UNCHANGED << taskVars, strategyVars, loadVars >>

\* The save resolved: the usage of the turn is added to the total and
\* turn.done is yielded.
SendFinish ==
  /\ sendPc = "accumulating"
  /\ totalUsage' = addUsage(totalUsage, send.turnUsage)
  /\ out' = Append(out, EvTurnDone(send.turnNumber, send.turnUsage))
  /\ sendPc' = "done"
  /\ UNCHANGED << cfg, messages, turns, lastInputTokens, saves, onErrorCalls, signal,
                  send, agentCalls, partsUsed >>
  /\ UNCHANGED << beforeSendCalls, afterResponseCalls >>
  /\ UNCHANGED runVars
  /\ UNCHANGED << taskVars, strategyVars, loadVars >>

\* The caller is done with the generator send returned (it finished or
\* threw); the locals of that send are gone, the events it yielded are what
\* the caller has seen.
SendReturned ==
  /\ sendPc \in { "done", "threw" }
  /\ sendPc' = "idle"
  /\ send' = NoSend
  /\ onErrorCalls' = << >>
  /\ beforeSendCalls' = << >>
  /\ afterResponseCalls' = << >>
  /\ signal' = FALSE
  /\ agentCalls' = 0
  /\ partsUsed' = 0
  /\ gen' = IdleGen
  /\ UNCHANGED << cfg, messages, turns, totalUsage, lastInputTokens, saves, out >>
  /\ UNCHANGED << agentMessages, approve, toolCalls, runs >>
  /\ UNCHANGED << taskVars, strategyVars, loadVars >>

SessionNext ==
  \/ Send
  \/ CompactResolves
  \/ CompactRejects
  \/ AttemptStep
  \/ Abort
  \/ SleepResolves
  \/ SleepRejects
  \/ CatchSleepRejects
  \/ AfterResponse
  \/ Save
  \/ SendFinish
  \/ SendReturned

\* --------------------------------------------- subagents: the task tool

\* Agent executors alive at once (the root agent and the children of task calls).
MaxFrames == 3
\* Stream parts the executors of the subagent specification consume, all together.
MaxTaskParts == 4

\* A tool set: the plain tools by name, and the agents its `task` tool
\* dispatches to (none: the set has no `task` tool).
ToolSet(plain, task) == [plain |-> plain, task |-> task]

\* createTaskTool(subagents): the tool knows its subagents by name.
createTaskTool(subagents) == subagents

\* new Agent(options): the task tool is merged into the tools when
\* subagents are given, else the tools are taken as they are.
NewAgent(options) ==
  [ name |-> options.name,
    approve |-> options.approve,
    messages |-> << >>,
    tools |-> IF options.subagents # {}
              THEN ToolSet(options.tools.plain, createTaskTool(options.subagents))
              ELSE options.tools ]

\* Child options that hand the template's approve callback on.
ChildOptionsKeepingApprove(template) ==
  [ name |-> template.name, tools |-> template.tools,
    approve |-> template.approve, subagents |-> {} ]

\* The options the task tool builds its child from: the template's name
\* and tools; no approve, no subagents.
ChildOptions(template) ==
  [ name |-> template.name, tools |-> template.tools,
    approve |-> FALSE, subagents |-> {} ]

\* A task tool that runs the template itself instead of a fresh instance.
TaskChildIsTemplate(template) == template

\* The child of a task call: a fresh Agent built from the template.
TaskChild(template) == NewAgent(ChildOptions(template))

\* `<task_result>\n${lastText || "(no output)"}\n</task_result>`
TaskResult(lastText) ==
  << "<task_result>" >> \o (IF lastText = << >> THEN << "(no output)" >> ELSE lastText)
    \o << "</task_result>" >>


\* What an earlier run call on the explore template itself left in it.
TemplateHistories ==
  { << >>, << Msg("user", << "in", 0 >>), Msg("assistant", << "out", 0 >>) >> }

\* The agents of the program: dev delegates to explore.  In one program
\* dev and explore have an approve callback, explore was built with a
\* subagent and has been run on its own before; in the other none of this.
AgentSetup(a, sub, h) ==
  [n \in { "grep", "explore", "dev" } |->
     CASE n = "grep" -> NewAgent([name |-> "grep", approve |-> FALSE,
                                  tools |-> ToolSet({ "grep" }, {}), subagents |-> {}])
       [] n = "explore" ->
            [NewAgent([name |-> "explore", approve |-> a,
                       tools |-> ToolSet({ "readFile" }, {}), subagents |-> sub])
               EXCEPT !.messages = h]
       [] n = "dev" -> NewAgent([name |-> "dev", approve |-> a,
                                 tools |-> ToolSet({ "bash" }, {}), subagents |-> { "explore" }])]

AgentSetups ==
  { AgentSetup(TRUE, { "grep" }, h) : h \in TemplateHistories \ { << >> } }
  \cup { AgentSetup(FALSE, { }, << >>) }

\* An executor: the Agent it runs, the name it was called by, the agent
\* whose task tool made it (its onSubagentEvent is the observer), the frame
\* of the task call that made it (0: the root), the generator of its run
\* on the prompt, the call of one of its own tools, and the task tool's
\* lastText and result.
Frame(agent, label, owner, parent, prompt) ==
  [ agent |-> agent, label |-> label, owner |-> owner, parent |-> parent,
    gen |-> RunBegin(agent.messages, StringInput(prompt)),
    call |-> NoCall,
    lastText |-> << >>, returned |-> FALSE, result |-> << >> ]

TaskInit ==
  /\ agents \in AgentSetups
  /\ frames = << >>
  /\ observed = << >>

\* The parts the provider may deliver to an executor (tool parts apart).
TaskParts(stream, tag) ==
  { [type |-> "text-delta", text |-> PText], [type |-> "text-end"] }
  \cup { p \in FinishParts(stream, tag) : p.finishReason = "stop" }

HasRunningChild(f) ==
  \E c \in 1..Len(frames) : frames[c].parent = f /\ ~frames[c].returned

RECURSIVE PartsDelivered(_)
\* The parts the executors' streams have delivered, all together.
PartsDelivered(k) == IF k = 0 THEN 0 ELSE frames[k].gen.n + PartsDelivered(k - 1)

FrameStreaming(f) ==
  /\ frames[f].gen.pc = "streaming"
  /\ frames[f].gen.stream # "finished"
  /\ PartsDelivered(Len(frames)) < MaxTaskParts

\* The last text.done among events, or the text before them.
RECURSIVE LastTextOf(_, _)
LastTextOf(lastText, evs) ==
  IF evs = << >> THEN lastText
  ELSE LastTextOf(IF Head(evs).type = "text.done" THEN Head(evs).text ELSE lastText, Tail(evs))

\* An observer call tagged with the name of the dispatching agent.
ObserverCallsTaggedByOwner(owner, label, evs) ==
  [i \in 1..Len(evs) |-> << owner, owner, evs[i] >>]

\* The body of the task tool's loop over child.run, for the events one
\* step of the child yields: each goes to onSubagentEvent, a text.done
\* becomes lastText.
ObserverCalls(owner, label, evs) == [i \in 1..Len(evs) |-> << owner, label, evs[i] >>]

\* Frame f after its generator moved to g2 and its tool call to call.
AdvanceWith(f, g2, call) ==
  LET fr == frames[f]
      evs == NewEvents(fr.gen, g2)
  IN /\ frames' = [frames EXCEPT ![f].gen = g2,
                                  ![f].call = call,
                                  ![f].lastText = IF fr.parent = 0 THEN @ ELSE LastTextOf(@, evs)]
     /\ observed' = IF fr.parent = 0 THEN observed
                    ELSE observed \o ObserverCalls(fr.owner, fr.label, evs)

Advance(f, g2) == AdvanceWith(f, g2, frames[f].call)

\* The program runs its root agent.
RootRun ==
  /\ frames = << >>
  /\ frames' = << Frame(agents["dev"], "dev", "", 0, << "in", 1 >>) >>
  /\ UNCHANGED << agents, observed >>
  /\ UNCHANGED << runVars, sessionVars, strategyVars, loadVars >>

\* An executor's stream delivers a part that is not about a tool.
FramePart ==
  \E f \in 1..Len(frames) :
    /\ FrameStreaming(f)
    /\ \E part \in TaskParts(frames[f].gen.stream, << "out", f >>) :
         /\ part.type = "finish" => ~HasRunningChild(f)
         /\ Advance(f, RunPart(frames[f].gen, part))
    /\ UNCHANGED agents
    /\ UNCHANGED << runVars, sessionVars, strategyVars, loadVars >>

\* An executor's model calls the `task` tool of its tool set: the tool-call
\* part, and execute builds a fresh child from the named template and
\* starts child.run(prompt).
TaskCall ==
  \E f \in 1..Len(frames), name \in { "grep", "explore", "dev" } :
    /\ FrameStreaming(f)
    /\ Len(frames) < MaxFrames
    /\ name \in frames[f].agent.tools.task
    /\ LET id == Len(frames) + 1
           g2 == RunPart(frames[f].gen,
                         [type |-> "tool-call", toolCallId |-> id, toolName |-> "task"])
           child == TaskChild(agents[name])
       IN /\ frames' = Append([frames EXCEPT ![f].gen = g2],
                               Frame(child, name, frames[f].agent.name, f, << "prompt", id >>))
          /\ observed' = IF frames[f].parent = 0 THEN observed
                         ELSE observed \o ObserverCalls(frames[f].owner, frames[f].label,
                                                      NewEvents(frames[f].gen, g2))
    /\ UNCHANGED agents
    /\ UNCHANGED << runVars, sessionVars, strategyVars, loadVars >>

\* An executor's model calls one of its plain tools: the tool-call part,
\* and the SDK starts the tool's execute (the wrapped one when the
\* executor has an approve callback).
FrameToolCall ==
  \E f \in 1..Len(frames) :
    /\ FrameStreaming(f)
    /\ frames[f].call.st = "none"
    /\ \E name \in frames[f].agent.tools.plain :
         AdvanceWith(f, RunPart(frames[f].gen,
                                [type |-> "tool-call", toolCallId |-> 0, toolName |-> name]),
                     CallStarted(frames[f].agent.approve, name))
    /\ UNCHANGED agents
    /\ UNCHANGED << runVars, sessionVars, strategyVars, loadVars >>

\* The approve callback of an executor's wrapped execute resolves.
FrameApproveResolves ==
  \E f \in 1..Len(frames), allowed \in BOOLEAN :
    /\ frames[f].gen.pc = "streaming"
    /\ frames[f].call.st = "approving"
    /\ frames' = [frames EXCEPT ![f].call = CallApproved(@, allowed)]
    /\ UNCHANGED << agents, observed >>
    /\ UNCHANGED << runVars, sessionVars, strategyVars, loadVars >>

\* The SDK reports how an executor's tool call ended.
FrameToolOutcome ==
  \E f \in 1..Len(frames) :
    /\ FrameStreaming(f)
    /\ LET c == frames[f].call IN
       \/ /\ c.st = "executing"
          /\ AdvanceWith(f, RunPart(frames[f].gen, [type |-> "tool-result", toolCallId |-> 0,
                                                    toolName |-> c.name]),
                         [c EXCEPT !.st = "returned"])
       \/ /\ c.st = "denied"
          /\ AdvanceWith(f, RunPart(frames[f].gen, [type |-> "tool-error", toolCallId |-> 0,
                                                    toolName |-> c.name,
                                                    error |-> ToolDeniedError(c.name)]),
                         [c EXCEPT !.st = "refused"])
    /\ UNCHANGED agents
    /\ UNCHANGED << runVars, sessionVars, strategyVars, loadVars >>

\* A child's stream throws or ends.
FrameStops ==
  \E f \in 1..Len(frames) :
    /\ frames[f].gen.pc = "streaming"
    /\ ~HasRunningChild(f)
    /\ \/ Advance(f, RunReturn(frames[f].gen))
       \/ /\ frames[f].gen.stream # "finished"
          /\ Advance(f, RunCatch(frames[f].gen, ErrOverloaded))
    /\ UNCHANGED agents
    /\ UNCHANGED << runVars, sessionVars, strategyVars, loadVars >>

\* The task tool's loop over child.run is over: execute returns the
\* result, and the parent's stream reports the tool's result.
TaskReturns ==
  \E f \in 1..Len(frames) :
    /\ frames[f].parent # 0
    /\ frames[f].gen.pc = "returned"
    /\ ~frames[f].returned
    /\ LET p == frames[f].parent
           g2 == RunPart(frames[p].gen,
                         [type |-> "tool-result", toolCallId |-> f, toolName |-> "task"])
       IN /\ frames' = [frames EXCEPT ![f].returned = TRUE,
                                       ![f].result = TaskResult(frames[f].lastText),
                                       ![p].gen = g2,
                                       ![p].lastText = IF frames[p].parent = 0 THEN @
                                                       ELSE LastTextOf(@, NewEvents(frames[p].gen, g2))]
          /\ observed' = IF frames[p].parent = 0 THEN observed
                         ELSE observed \o ObserverCalls(frames[p].owner, frames[p].label,
                                                      NewEvents(frames[p].gen, g2))
    /\ UNCHANGED agents
    /\ UNCHANGED << runVars, sessionVars, strategyVars, loadVars >>

TaskNext ==
  \/ RootRun
  \/ FramePart
  \/ TaskCall
  \/ FrameToolCall
  \/ FrameApproveResolves
  \/ FrameToolOutcome
  \/ FrameStops
  \/ TaskReturns

\* ------------------------------------------------------- specifications

\* ------------------------------- the default compaction strategy

\* Messages of the longest history compact is called with.
MaxHistory == 3
\* Characters of a large, a medium and a short tool-result payload or text.
BigChars == 240100
MidChars == 120000
ShortChars == 4
\* Characters of a large payload whose length is not a multiple of four.
OddChars == 240101
\* The context window of the session that calls compact, when it has one.
WindowTokens == 200000

\* The defaults of the strategy's constructor.
DefaultProtectedTokens == 40000
DefaultMinPruneSavings == 20000
\* The default of the session's reservedTokens.
DefaultReservedTokens == 20000

\* A string: what it says and how many characters it has.
Str(chars, len) == [chars |-> chars, len |-> len]

\* The placeholder a pruned tool result is replaced by.
PrunedPlaceholder == Str("[pruned]", 8)

\* The id of the tool call of the modelled histories.
HistoryCallId == "c1"

\* Content parts and contents.  A tool-result part carries its payload in
\* `result`, the field pruning overwrites, and the id of the call it
\* answers; a tool-call part carries the id; the text of a text part is
\* kept in `result` too.  The tool names and inputs are left out.
ToolResultPart(result) ==
  [type |-> "tool-result", toolCallId |-> HistoryCallId, result |-> result]
ToolCallPart == [type |-> "tool-call", toolCallId |-> HistoryCallId, result |-> Str("", 0)]
TextPart(text) == [type |-> "text", toolCallId |-> "", result |-> text]
StringContent(str) == [isArray |-> FALSE, str |-> str, parts |-> << >>]
ArrayContent(parts) == [isArray |-> TRUE, str |-> Str("", 0), parts |-> parts]

\* The length of JSON.stringify of a string without characters to escape.
JsonString(str) == str.len + 2

\* {"type":"tool-result","toolCallId":"c1","result":"..."},
\* {"type":"tool-call","toolCallId":"c1"} and {"type":"text","text":"..."}
JsonPart(part) ==
  CASE part.type = "tool-result" -> 50 + JsonString(part.result)
    [] part.type = "tool-call" -> 38
    [] OTHER -> 23 + JsonString(part.result)

RECURSIVE JsonParts(_)
JsonParts(parts) ==
  IF parts = << >> THEN 0
  ELSE JsonPart(Head(parts)) + (IF Len(parts) > 1 THEN 1 ELSE 0) + JsonParts(Tail(parts))

JsonContent(content) ==
  IF content.isArray THEN 2 + JsonParts(content.parts) ELSE JsonString(content.str)

RoleChars(role) ==
  CASE role = "assistant" -> 9
    [] role = "system" -> 6
    [] OTHER -> 4

\* {"role":"...","content":...}
JsonMessage(msg) == 20 + (RoleChars(msg.role) + 2) + JsonContent(msg.content)

RECURSIVE JsonMessages(_)
JsonMessages(msgs) ==
  IF msgs = << >> THEN 0
  ELSE JsonMessage(Head(msgs)) + (IF Len(msgs) > 1 THEN 1 ELSE 0) + JsonMessages(Tail(msgs))

\* Math.ceil(JSON.stringify(messages).length / 4)
defaultEstimateTokens(msgs) == (2 + JsonMessages(msgs) + 3) \div 4

\* estimator([msg])
estimateMessageTokens(msg) == defaultEstimateTokens(<< msg >>)

\* The backward walk of pruneToolResults, from message i (counted from 1)
\* down: the number of messages before the protection boundary.
RECURSIVE WalkBack(_, _, _, _)
WalkBack(msgs, i, accumulated, protectedTokens) ==
  IF i = 0 THEN Len(msgs)
  ELSE IF accumulated + estimateMessageTokens(msgs[i]) >= protectedTokens THEN i - 1
  ELSE WalkBack(msgs, i - 1, accumulated + estimateMessageTokens(msgs[i]), protectedTokens)

Boundary(msgs, protectedTokens) == WalkBack(msgs, Len(msgs), 0, protectedTokens)

\* A pruning that rebuilds the part from its type and the placeholder.
PrunePartsDroppingIds(parts) ==
  [k \in 1..Len(parts) |->
     IF parts[k].type = "tool-result"
     THEN [type |-> "tool-result", toolCallId |-> "", result |-> PrunedPlaceholder]
     ELSE parts[k]]

\* content.map(...): the payload of every tool-result part is replaced.
PruneParts(parts) ==
  [k \in 1..Len(parts) |->
     IF parts[k].type = "tool-result"
     THEN [parts[k] EXCEPT !.result = PrunedPlaceholder] ELSE parts[k]]

\* What the second loop of pruneToolResults makes of message i.
PruneMessage(msgs, i, boundary) ==
  IF i <= boundary /\ msgs[i].role = "tool" /\ msgs[i].content.isArray
  THEN [msgs[i] EXCEPT !.content.parts = PruneParts(@)]
  ELSE msgs[i]

RECURSIVE SumSaved(_, _, _, _)
SumSaved(msgs, result, i, boundary) ==
  IF i = 0 THEN 0
  ELSE SumSaved(msgs, result, i - 1, boundary)
       + (IF i <= boundary /\ msgs[i].role = "tool"
          THEN estimateMessageTokens(msgs[i]) - estimateMessageTokens(result[i]) ELSE 0)

NoPruneResult == [messages |-> << >>, tokensSaved |-> 0, messagesModified |-> 0]

\* pruneToolResults: the boundary, the pruning before it, the savings test.
pruneToolResults(msgs, protectedTokens, minSavings) ==
  LET boundary == Boundary(msgs, protectedTokens)
      result == [i \in 1..Len(msgs) |-> PruneMessage(msgs, i, boundary)]
      tokensSaved == SumSaved(msgs, result, Len(msgs), boundary)
      modified == Cardinality({ i \in 1..boundary : msgs[i].role = "tool" })
  IN IF tokensSaved < minSavings
     THEN [messages |-> msgs, tokensSaved |-> 0, messagesModified |-> 0]
     ELSE [messages |-> result, tokensSaved |-> tokensSaved, messagesModified |-> modified]

\* The constructor of DefaultCompactionStrategy: unset options take the
\* defaults.
NewStrategy(protectedTokens, minPruneSavings) ==
  [ protectedTokens |-> IF protectedTokens = Undefined THEN DefaultProtectedTokens
                        ELSE CHOOSE n \in protectedTokens : TRUE,
    minPruneSavings |-> IF minPruneSavings = Undefined THEN DefaultMinPruneSavings
                        ELSE CHOOSE n \in minPruneSavings : TRUE ]

NoCompaction ==
  [ messages |-> << >>, summary |-> Undefined, messagesRemoved |-> 0, tokensPruned |-> 0 ]

\* A pruning-only result that reports the messages as removed.
PruningResultCountingRemoved(p) ==
  [ messages |-> p.messages, summary |-> Undefined,
    messagesRemoved |-> Len(p.messages), tokensPruned |-> p.tokensSaved ]

\* Phase 1 of compact was enough: the pruned history is the result.
PruningResult(p) ==
  [ messages |-> p.messages, summary |-> Undefined,
    messagesRemoved |-> 0, tokensPruned |-> p.tokensSaved ]

\* The summaries generateText may resolve to.
Summaries == { Str("summary", ShortChars) }

\* `[Previous conversation summary]\n\n${summary}\n\n[The conversation continues from here]`
SummaryMessage(summary) ==
  [ role |-> "user",
    content |-> StringContent(Str("[Previous conversation summary]\n\n" \o summary.chars
                                    \o "\n\n[The conversation continues from here]",
                                  31 + 2 + summary.len + 2 + 38)) ]

\* Phase 2 of compact: one summary message replaces the history.
SummaryResult(msgs, summary) ==
  [ messages |-> << SummaryMessage(summary) >>, summary |-> Some(summary),
    messagesRemoved |-> Len(msgs) - 1,
    tokensPruned |-> defaultEstimateTokens(msgs)
                     - defaultEstimateTokens(<< SummaryMessage(summary) >>) ]

\* The messages a history is made of: tool messages with a large, a medium,
\* a short and an already pruned result (and a large one of odd length),
\* user and assistant messages (one of them a tool call), and the summary
\* message of an earlier compaction.
ToolMessage(result) ==
  [role |-> "tool", content |-> ArrayContent(<< ToolResultPart(result) >>)]

HistoryMessages ==
  { ToolMessage(Str("big", BigChars)), ToolMessage(Str("mid", MidChars)),
    ToolMessage(Str("odd", OddChars)),
    ToolMessage(Str("ok", ShortChars)), ToolMessage(PrunedPlaceholder),
    [role |-> "user", content |-> StringContent(Str("ask", MidChars))],
    [role |-> "user", content |-> StringContent(Str("hi", ShortChars))],
    [role |-> "assistant", content |-> ArrayContent(<< TextPart(Str("say", ShortChars)) >>)],
    [role |-> "assistant", content |-> ArrayContent(<< ToolCallPart >>)] }
  \cup { SummaryMessage(summary) : summary \in Summaries }

Histories ==
  UNION { [1..n -> HistoryMessages] : n \in 0..MaxHistory }

\* The context windows of the sessions that call compact.
ContextWindows == { Undefined, Some(WindowTokens) }

\* The CompactionContext Session.compact builds: the messages, their
\* estimate, and the target (the window less the reserved tokens, or half
\* the estimate, whose fraction is dropped here).
CompactionContextOf(msgs, contextWindow) ==
  [ messages |-> msgs,
    totalTokens |-> defaultEstimateTokens(msgs),
    targetTokens |-> IF contextWindow # Undefined /\ contextWindow # Some(0)
                     THEN OrZero(contextWindow) - DefaultReservedTokens
                     ELSE defaultEstimateTokens(msgs) \div 2 ]

\* The options the strategies are built with.
StrategyOptions == { Undefined, Some(0) }

StrategyInit ==
  /\ \E p \in StrategyOptions, m \in StrategyOptions : strategy = NewStrategy(p, m)
  /\ context \in { CompactionContextOf(h, w) : h \in Histories, w \in ContextWindows }
  /\ compactPc = "ready"
  /\ pruned = NoPruneResult
  /\ compaction = NoCompaction
  /\ modelCalls = 0

\* compact(context) up to its first await: phase 1, and either the return
\* of the pruned history or the call of generateText.
Compact ==
  /\ compactPc = "ready"
  /\ pruned' = pruneToolResults(context.messages, strategy.protectedTokens,
                                strategy.minPruneSavings)
  /\ IF pruned'.tokensSaved >= strategy.minPruneSavings
     THEN /\ compaction' = PruningResult(pruned')
          /\ compactPc' = "returned"
          /\ UNCHANGED modelCalls
     ELSE /\ modelCalls' = modelCalls + 1
          /\ compactPc' = "summarizing"
          /\ UNCHANGED compaction
  /\ UNCHANGED << strategy, context >>
  /\ UNCHANGED << runVars, sessionVars, taskVars, loadVars >>

\* generateText resolves with a summary.
SummaryResolves ==
  /\ compactPc = "summarizing"
  /\ \E summary \in Summaries : compaction' = SummaryResult(context.messages, summary)
  /\ compactPc' = "returned"
  /\ UNCHANGED << strategy, context, pruned, modelCalls >>
  /\ UNCHANGED << runVars, sessionVars, taskVars, loadVars >>

\* generateText rejects (a provider fault or an abort): compact rejects.
SummaryRejects ==
  /\ compactPc = "summarizing"
  /\ compactPc' = "threw"
  /\ UNCHANGED << strategy, context, pruned, compaction, modelCalls >>
  /\ UNCHANGED << runVars, sessionVars, taskVars, loadVars >>

StrategyNext ==
  \/ Compact
  \/ SummaryResolves
  \/ SummaryRejects

\* ------------------------------------------- the project instructions

\* Run calls started on one Agent.
MaxRunCalls == 3

\* cachedInstructions: null until the first load resolved, then what the
\* load resolved to (a block of text, or undefined when nothing was found).
NotLoaded == [loaded |-> FALSE, value |-> Undefined]
Loaded(block) == [loaded |-> TRUE, value |-> block]

\* What findInstructions may resolve to: the trimmed content of the first
\* AGENTS.md or CLAUDE.md on the way up, or undefined (none, or an empty one).
ProjectFiles == { Undefined, Some("use tabs") }

\* loadInstructions: the content wrapped into the instruction block.
loadInstructions(content) ==
  IF content = Undefined THEN Undefined
  ELSE Some(<< "<agents-md>", CHOOSE c \in content : TRUE, "</agents-md>" >>)

\* The system prompts the agents are built with.
SystemPrompts == { Undefined, Some(<< "be brief" >>) }

\* [this.systemPrompt, this.cachedInstructions].filter(Boolean), joined;
\* undefined when no part is left.
SystemOf(prompt, cached) ==
  LET parts == (IF prompt = Undefined THEN << >> ELSE << CHOOSE x \in prompt : TRUE >>)
               \o (IF cached = Undefined THEN << >> ELSE << CHOOSE x \in cached : TRUE >>)
  IN IF parts = << >> THEN Undefined ELSE Some(parts)

\* this.instructions && this.cachedInstructions === null
NeedsLoad(flag, cached) == flag /\ ~cached.loaded

LoadInit ==
  /\ instructions \in BOOLEAN
  /\ systemPrompt \in SystemPrompts
  /\ cachedInstructions = NotLoaded
  /\ loadCalls = 0
  /\ runCalls = << >>
  /\ agentMessages = << >>
  /\ approve = FALSE
  /\ gen = IdleGen
  /\ toolCalls = [id \in CallIds |-> NoCall]
  /\ runs = 0

\* A run call starts (its generator is advanced for the first time): the
\* input is pushed; then either loadInstructions is invoked and awaited, or
\* the system prompt is put together and the stream is created.
RunStart ==
  /\ Len(runCalls) < MaxRunCalls
  /\ \E input \in RunInputs(Len(runCalls) + 1) :
       agentMessages' = AppendInput(agentMessages, input)
  /\ IF NeedsLoad(instructions, cachedInstructions)
     THEN /\ loadCalls' = loadCalls + 1
          /\ runCalls' = Append(runCalls, [pc |-> "loading", system |-> Undefined])
     ELSE /\ UNCHANGED loadCalls
          /\ runCalls' = Append(runCalls,
                                [pc |-> "streaming",
                                 system |-> SystemOf(systemPrompt, cachedInstructions.value)])
  /\ UNCHANGED << instructions, systemPrompt, cachedInstructions >>
  /\ UNCHANGED << approve, gen, toolCalls, runs >>
  /\ UNCHANGED << sessionVars, taskVars, strategyVars >>

\* The load a run call awaits resolves: the result is cached, the system
\* prompt is put together and the stream is created.
LoadResolves ==
  /\ \E k \in 1..Len(runCalls), content \in ProjectFiles :
       /\ runCalls[k].pc = "loading"
       /\ cachedInstructions' = Loaded(loadInstructions(content))
       /\ runCalls' = [runCalls EXCEPT
                         ![k] = [pc |-> "streaming",
                                 system |-> SystemOf(systemPrompt, cachedInstructions'.value)]]
  /\ UNCHANGED << instructions, systemPrompt, loadCalls >>
  /\ UNCHANGED runVars
  /\ UNCHANGED << sessionVars, taskVars, strategyVars >>

\* The stream of a run call is consumed to its end.
RunEnds ==
  /\ \E k \in 1..Len(runCalls) :
       /\ runCalls[k].pc = "streaming"
       /\ runCalls' = [runCalls EXCEPT ![k].pc = "returned"]
  /\ UNCHANGED << instructions, systemPrompt, cachedInstructions, loadCalls >>
  /\ UNCHANGED runVars
  /\ UNCHANGED << sessionVars, taskVars, strategyVars >>

LoadNext ==
  \/ RunStart
  \/ LoadResolves
  \/ RunEnds

\* The state of the parts a specification leaves alone.
SessionIdle ==
  /\ SessionInit
  /\ cfg = NewSession(SessionOptionsOf(0, FALSE, NoCompactionOptions))

RunIdle ==
  /\ agentMessages = << >>
  /\ approve = FALSE
  /\ gen = IdleGen
  /\ toolCalls = [id \in CallIds |-> NoCall]
  /\ runs = 0

TaskIdle ==
  /\ agents = [n \in { "grep" } |->
                 NewAgent([name |-> "grep", approve |-> FALSE,
                           tools |-> ToolSet({ "grep" }, {}), subagents |-> {}])]
  /\ frames = << >>
  /\ observed = << >>

StrategyIdle ==
  /\ strategy = NewStrategy(Undefined, Undefined)
  /\ context = CompactionContextOf(<< >>, Undefined)
  /\ compactPc = "returned"
  /\ pruned = NoPruneResult
  /\ compaction = NoCompaction
  /\ modelCalls = 0

LoadIdle ==
  /\ instructions = FALSE
  /\ systemPrompt = Undefined
  /\ cachedInstructions = NotLoaded
  /\ loadCalls = 0
  /\ runCalls = << >>

\* The step loop alone: run calls on one Agent.
RunSpecInit == RunInit /\ SessionIdle /\ TaskIdle /\ StrategyIdle /\ LoadIdle

SpecRun == RunSpecInit /\ [][RunNext]_vars

\* Agents delegating to subagents through the task tool.
TaskSpecInit == TaskInit /\ SessionIdle /\ RunIdle /\ StrategyIdle /\ LoadIdle

SpecTask == TaskSpecInit /\ [][TaskNext]_vars

\* A Session driving its agent.
SessionSpecInit == SessionInit /\ RunIdle /\ TaskIdle /\ StrategyIdle /\ LoadIdle

Spec == SessionSpecInit /\ [][SessionNext]_vars

\* The default compaction strategy applied to a history.
CompactSpecInit == StrategyInit /\ SessionIdle /\ RunIdle /\ TaskIdle /\ LoadIdle

SpecCompact == CompactSpecInit /\ [][StrategyNext]_vars

\* Run calls on one Agent, up to the creation of their streams.
LoadSpecInit == LoadInit /\ SessionIdle /\ TaskIdle /\ StrategyIdle

SpecLoad == LoadSpecInit /\ [][LoadNext]_vars

\* ------------------------------------------------ properties: the step loop

EventsOfType(evs, t) == { i \in 1..Len(evs) : evs[i].type = t }

\* C1 (as stated): for every run call that has returned, whatever the
\* stream did (finished, reported an error, threw, or just ended), the
\* events it yielded hold exactly one done event, and it is the last one.
C1_ExactlyOneDoneLast ==
  gen.pc = "returned" =>
    /\ Cardinality(EventsOfType(gen.out, "done")) = 1
    /\ gen.out[Len(gen.out)].type = "done"

\* A fault thrown while streaming: the stream's iteration throws, or
\* awaiting the response rejects.
FaultThrown ==
  \/ StreamThrows
  \/ StreamPart /\ gen'.pc = "returned"

C9_DenialBecomesToolError ==
  [][ \A id \in CallIds :
        /\ toolCalls'[id].st \in { "denied", "refused" } =>
             /\ ~toolCalls'[id].invoked
             /\ \A i \in EventsOfType(gen'.out, "tool.done") : gen'.out[i].toolCallId # id
        /\ (toolCalls[id].st = "approving" /\ toolCalls'[id].st = "denied") => gen' = gen
        /\ (toolCalls[id].st = "denied" /\ toolCalls'[id].st = "refused") =>
             /\ gen'.out = Append(gen.out, EvToolError(id, toolCalls[id].name,
                                                       ToolDeniedError(toolCalls[id].name)))
             /\ gen'.pc = "streaming"
             /\ gen'.stream = gen.stream ]_vars

\* C9 witness: a call was denied and reported, and the run then completed.
C9_Witness ==
  /\ \E id \in CallIds : toolCalls[id].st = "refused" /\ ~toolCalls[id].invoked
  /\ gen.pc = "returned"
  /\ gen.out[Len(gen.out)].type = "done"
  /\ gen.out[Len(gen.out)].result = "complete"
  /\ EventsOfType(gen.out, "error") = {}

\* ------------------------------------------------- properties: the session

RetryEvents(evs, a) == { i \in 1..Len(evs) : evs[i].type = "retry" /\ evs[i].attempt = a }

IsContent(e) == e.type \in { "text.delta", "tool.start" }

ContentBefore(evs, i) == \E j \in 1..(i - 1) : IsContent(evs[j])

\* An attempt's events hold a retryable error before any visible content.
EarlyRetryableError(evs) ==
  \E i \in 1..Len(evs) :
    /\ evs[i].type = "error"
    /\ isRetryableError(evs[i].error)
    /\ ~ContentBefore(evs, i)

DoneErrorAfter(evs, i) ==
  \E k \in (i + 1)..Len(evs) : evs[k].type = "done" /\ evs[k].result = "error"

SendEnded == sendPc \in { "done", "threw" }

\* The step in which the running attempt 0 yields a retryable error
\* event before the send has yielded any text.delta or tool.start.
EarlyFaultOnAttempt0 ==
  /\ sendPc = "running"
  /\ send.attempt = 0
  /\ cfg.maxRetries >= 1
  /\ \A i \in 1..Len(out) : ~IsContent(out[i])
  /\ Len(gen'.out) > Len(gen.out)
  /\ gen'.out[Len(gen.out) + 1].type = "error"
  /\ isRetryableError(gen'.out[Len(gen.out) + 1].error)

\* The step in which the backoff delay after attempt 0 elapses, the signal
\* not aborted.
BackoffElapsedAfterAttempt0 ==
  /\ sendPc = "sleeping"
  /\ send.attempt = 0
  /\ ~signal
  /\ sendPc' # "sleeping"

\* C2 (as stated): in a send that has ended, with maxRetries >= 1, whose
\* first attempt yielded a retryable error before any content, agent.run
\* was invoked a second time and exactly one retry event carries attempt 0.
C2_SecondRunAlways ==
  (SendEnded /\ cfg.maxRetries >= 1) =>
    /\ agentCalls = 1 => ~EarlyRetryableError(gen.out)
    /\ Cardinality(RetryEvents(out, 0)) <= 1

\* C2 (amended): when attempt 0 yields a retryable error before any
\* text.delta or tool.start and maxRetries >= 1, that step yields exactly
\* one retry event, with attempt 0 and that error, and session.messages
\* becomes the snapshot; and when the backoff delay then elapses without
\* the signal being aborted, agent.run is invoked a second time, on the
\* same effective messages and input, the retry event still being the only
\* one and session.messages still the snapshot.
C2_EarlyFaultRetried ==
  [][ /\ EarlyFaultOnAttempt0 =>
           /\ out' = Append(out, EvRetry(0, cfg.maxRetries,
                                         gen'.out[Len(gen.out) + 1].error))
           /\ messages' = send.snapshot
           /\ sendPc' = "sleeping"
           /\ agentCalls' = 1
      /\ BackoffElapsedAfterAttempt0 =>
           /\ agentCalls' = 2
           /\ gen'.pc = "streaming"
           /\ gen'.out = << >>
           /\ gen'.messages = AppendInput(send.effectiveMessages, send.input)
           /\ send'.attempt = 1
           /\ Cardinality(RetryEvents(out', 0)) = 1
           /\ messages' = send.snapshot ]_vars

\* C2 witness: in the second send of a session with history, attempt 0
\* failed early, one retry event was yielded, the delay elapsed and the
\* second attempt runs.
C2_Witness ==
  /\ turns = 2
  /\ sendPc = "running"
  /\ send.attempt = 1
  /\ agentCalls = 2
  /\ Cardinality(RetryEvents(out, 0)) = 1
  /\ send.snapshot # << >>
  /\ messages = send.snapshot

\* C3 (as stated): in a send that has ended, no retry event comes after a
\* text.delta or tool.start, and every error event that comes after one is
\* followed by a done event with result "error".
C3_CommittedAfterContent ==
  SendEnded =>
    \A i \in 1..Len(out) :
      ContentBefore(out, i) =>
        /\ out[i].type # "retry"
        /\ out[i].type = "error" => DoneErrorAfter(out, i)

\* C4 (as stated): a send in which an error event reached the caller does
\* not throw, and the error event is followed by a done event with result
\* "error".
C4_ErrorThenDoneError ==
  (SendEnded /\ \E i \in 1..Len(out) : out[i].type = "error") =>
    /\ sendPc = "done"
    /\ \A i \in 1..Len(out) : out[i].type = "error" => DoneErrorAfter(out, i)

\* C5 (as stated): a send invokes agent.run at most maxRetries + 1 times
\* and yields at most maxRetries retry events.
C5_BoundedRetries ==
  /\ agentCalls <= cfg.maxRetries + 1
  /\ Cardinality({ i \in 1..Len(out) : out[i].type = "retry" }) <= cfg.maxRetries

\* A message of the current turn: its input, or what one of its attempts
\* produced.
OfTurn(m, t) ==
  \/ m = Msg("user", << "in", t >>)
  \/ m.role = "assistant" /\ Len(m.content) = 3 /\ m.content[2] = t

\* C6: the snapshot of a send is session.messages as it was when the send
\* began; every step that yields a retry event sets session.messages to
\* that snapshot, which holds no message of the current turn; in every
\* state, session.messages and every list passed to sessionStore.save
\* hold no message produced by an attempt of the current send that was
\* retried.
C6_RetryRollsBack ==
  [][ /\ (sendPc = "idle" /\ sendPc' # "idle") => send'.snapshot = messages
      /\ (\E a \in 0..MaxRetriesCfg :
             Cardinality(RetryEvents(out', a)) > Cardinality(RetryEvents(out, a))) =>
           /\ messages' = send.snapshot
           /\ \A i \in 1..Len(messages') : ~OfTurn(messages'[i], turns)
      /\ \A a \in 0..MaxRetriesCfg :
           RetryEvents(out', a) # {} =>
             /\ \A i \in 1..Len(messages') :
                  messages'[i] # Msg("assistant", << "out", turns', a >>)
             /\ \A k \in 1..Len(saves') : \A i \in 1..Len(saves'[k]) :
                  saves'[k][i] # Msg("assistant", << "out", turns', a >>) ]_vars

\* C6 witness: the second send of a session with a store was retried and
\* then completed; its result was saved.
C6_Witness ==
  /\ turns = 2
  /\ sendPc = "done"
  /\ RetryEvents(out, 0) # {}
  /\ Len(saves) = 2
  /\ Len(messages) > Len(send.snapshot)
  /\ send.snapshot # << >>

\* C7: a step that starts a send increases turns by exactly 1, and no
\* other step (attempts, retries, the end of a send, normal or thrown)
\* changes turns.
C7_OneTurnPerSend ==
  [][ IF sendPc = "idle" /\ sendPc' # "idle"
      THEN turns' = turns + 1
      ELSE turns' = turns ]_vars

\* C7 witness: two sends were started; the second one was retried and then
\* threw, and turns is 2.
C7_Witness ==
  /\ turns = 2
  /\ sendPc = "threw"
  /\ RetryEvents(out, 0) # {}
  /\ agentCalls = 1

\* ------------------------------------------------ properties: subagents

\* C10 (as stated): the child executor a task call created has no task
\* tool, and the call that created it was made by the root agent, so
\* delegation is never deeper than one level.
C10_NoNesting ==
  \A f \in 1..Len(frames) :
    frames[f].parent # 0 =>
      /\ frames[f].agent.tools.task = {}
      /\ frames[frames[f].parent].parent = 0

IsChild(f) == frames[f].parent # 0

\* C11: the executor of a task call has no approve callback, whatever the
\* template and the parent were built with, and none of its tool calls
\* waits for, or is refused by, an approval: once started, the tool's
\* execute has been invoked.
C11_ChildNeverAsksApproval ==
  \A f \in 1..Len(frames) :
    IsChild(f) =>
      /\ ~frames[f].agent.approve
      /\ frames[f].call.st \notin { "approving", "denied", "refused" }
      /\ frames[f].call.st # "none" => frames[f].call.invoked

\* C11 witness: parent and template both have an approve callback, and a
\* tool call of the template's child has run to its result.
C11_Witness ==
  /\ agents["dev"].approve /\ agents["explore"].approve
  /\ \E f \in 1..Len(frames) :
       /\ IsChild(f)
       /\ frames[f].label = "explore"
       /\ frames[f].call.st = "returned"
       /\ frames[f].call.invoked

\* The messages an executor's own run may hold: its prompt, then what its
\* own stream produced.
OwnHistory(msgs, prompt, f) ==
  /\ Len(msgs) >= 1
  /\ msgs[1] = Msg("user", prompt)
  /\ \A i \in 2..Len(msgs) : msgs[i] = Msg("assistant", << "out", f >>)

\* C12: the history of every child executor starts with the prompt of its
\* own task call and holds besides only what its own stream produced;
\* the parent's history holds only its own input and output; and the
\* templates' histories are what they were before.
C12_FreshChildPerCall ==
  /\ \A f \in 1..Len(frames) :
       OwnHistory(frames[f].gen.messages,
                  IF IsChild(f) THEN << "prompt", f >> ELSE << "in", 1 >>, f)
  /\ \A n \in DOMAIN agents : agents[n].messages \in TemplateHistories
  /\ \A n \in DOMAIN agents :
       \A i \in 1..Len(agents[n].messages) : agents[n].messages[i].content[2] = 0

\* C12 witness: two task calls named the same template, which has a
\* history of its own; both children have finished their runs.
C12_Witness ==
  /\ agents["explore"].messages # << >>
  /\ \E f, g \in 1..Len(frames) :
       /\ f # g
       /\ IsChild(f) /\ IsChild(g)
       /\ frames[f].label = "explore" /\ frames[g].label = "explore"
       /\ frames[f].gen.stream = "finished" /\ Len(frames[f].gen.messages) = 2
       /\ frames[g].gen.stream = "finished" /\ Len(frames[g].gen.messages) = 2

\* The text of the last text.done among events, or the placeholder.
LastTextDoneOr(evs, placeholder) ==
  LET I == EventsOfType(evs, "text.done")
  IN IF I = {} THEN placeholder
     ELSE evs[CHOOSE i \in I : \A j \in I : j <= i].text

\* C13 (as stated): the result of a task call that has returned is the
\* text of the child's last text.done event, or "(no output)".
C13_ResultIsLastText ==
  \A f \in 1..Len(frames) :
    (IsChild(f) /\ frames[f].returned) =>
      frames[f].result = LastTextDoneOr(frames[f].gen.out, << "(no output)" >>)

\* C13 (amended): in every step the observer of the dispatching agent is
\* called exactly with the events the step made a child yield, in their
\* order, each tagged with the child's name; a task call returns only when
\* its child's generator has returned, and its result is the text of the
\* child's last text.done event, or "(no output)", between the
\* <task_result> and </task_result> markers.
C13_ObserverAndResult ==
  [][ /\ LET changed == { f \in 1..Len(frames) : frames'[f].gen.out # frames[f].gen.out }
             relayed == { f \in changed : IsChild(f) }
         IN /\ Cardinality(changed) <= 1
            /\ relayed = {} => observed' = observed
            /\ \A f \in relayed :
                 LET evs == SubSeq(frames'[f].gen.out, Len(frames[f].gen.out) + 1,
                                   Len(frames'[f].gen.out))
                 IN observed' = observed \o
                      [i \in 1..Len(evs) |->
                         << frames[f].owner, frames[f].agent.name, evs[i] >>]
      /\ \A f \in 1..Len(frames') :
           (frames'[f].parent # 0 /\ frames'[f].returned) =>
             /\ frames'[f].gen.pc = "returned"
             /\ frames'[f].result =
                  << "<task_result>" >>
                    \o LastTextDoneOr(frames'[f].gen.out, << "(no output)" >>)
                    \o << "</task_result>" >> ]_vars

\* C13 witness: a child yielded a text.done and its task call returned
\* that text; the observer was called for the child's events.
C13_Witness ==
  \E f \in 1..Len(frames) :
    /\ IsChild(f)
    /\ frames[f].returned
    /\ frames[f].result = << "<task_result>" >> \o PText \o << "</task_result>" >>
    /\ Len(observed) >= 2
    /\ observed[1] = << "dev", frames[f].agent.name, EvTextDelta(PText) >>

\* The messages an input stands for.
InputMessages(input) ==
  IF input.kind = "string" THEN << Msg("user", input.text) >> ELSE input.msgs

\* The stream of the current run delivered its finish part and the response
\* resolved: the run finished normally.
FinishedNormally == gen.finish.type = "finish" /\ ~gen.finish.rejected

LastEvent == gen.out[Len(gen.out)]

\* C14: when a run finishes normally, its done event's messages are exactly
\* the history passed to run (run has no history parameter, so nothing is
\* passed), then the new input (a string as one user message, a list as it
\* is), then every message the run produced, in order; and its totalUsage
\* is the provider's cumulative usage.
C14_DoneMessagesAndUsage ==
  FinishedNormally =>
    /\ LastEvent.type = "done"
    /\ LastEvent.messages = InputMessages(gen.input) \o gen.finish.response
    /\ LastEvent.totalUsage.inputTokens = gen.finish.totalUsage.inputTokens
    /\ LastEvent.totalUsage.outputTokens = gen.finish.totalUsage.outputTokens
    /\ LastEvent.totalUsage.totalTokens = gen.finish.totalUsage.totalTokens

\* C15: the Agent is stateless; the done event of a run holds no message
\* of an earlier run on the same Agent (none is ever passed in): every
\* message of it comes from the current run's input or stream.
C15_NoMessageOfEarlierRun ==
  \A i \in 1..Len(gen.out) :
    gen.out[i].type = "done" =>
      \A j \in 1..Len(gen.out[i].messages) :
        gen.out[i].messages[j].content[2] = runs

\* C16: the result of a done event is one of four outcomes, decided by the
\* finish reason: complete for "stop", max_steps for "tool-calls", error
\* for "error" or for a fault caught in the loop (a throwing stream or a
\* rejected response), and stopped for every other reason.
C16_ResultFromFinishReason ==
  \A i \in 1..Len(gen.out) :
    gen.out[i].type = "done" =>
      /\ gen.out[i].result \in { "complete", "max_steps", "error", "stopped" }
      /\ gen.out[i].result =
           CASE ~FinishedNormally -> "error"
             [] FinishedNormally /\ gen.finish.finishReason = "stop" -> "complete"
             [] FinishedNormally /\ gen.finish.finishReason = "tool-calls" -> "max_steps"
             [] FinishedNormally /\ gen.finish.finishReason = "error" -> "error"
             [] OTHER -> "stopped"

\* C16 witness: a run whose provider finished for a reason other than
\* stop, tool-calls and error ended with the result stopped.
C16_Witness ==
  /\ FinishedNormally
  /\ gen.finish.finishReason = "length"
  /\ gen.pc = "returned"
  /\ LastEvent.type = "done"
  /\ LastEvent.result = "stopped"

\* ------------------------------------------ properties: auto-compaction

\* The step in which send is called.
SendCalled == sendPc = "idle" /\ sendPc' # "idle"

\* The default trigger: the last observed input-token count is at or above
\* contextWindow - reservedTokens.
AtThreshold ==
  /\ cfg.contextWindow # Undefined
  /\ lastInputTokens >= OrZero(cfg.contextWindow) - cfg.reservedTokens

\* C17 as stated: on send, compaction runs before the agent is invoked if
\* and only if auto-compaction is enabled, a context window is configured
\* and either the threshold is reached or the custom shouldCompact
\* predicate returns true.
C17_CompactsIffEither ==
  [][ SendCalled =>
        ( sendPc' = "compacting"
          <=> /\ cfg.autoCompact
              /\ cfg.contextWindow # Undefined
              /\ (AtThreshold \/ cfg.shouldCompactFn = "true") ) ]_vars

\* C17, amended: on send, compaction runs, and before the agent is
\* invoked, if and only if auto-compaction is enabled, a non-zero context
\* window is configured and the trigger fires; the trigger is the custom
\* shouldCompact predicate when one is configured, and the threshold test
\* only when none is.
C17_CompactsIffTriggered ==
  [][ SendCalled =>
        /\ ( sendPc' = "compacting"
             <=> /\ cfg.autoCompact
                 /\ cfg.contextWindow \notin { Undefined, Some(0) }
                 /\ IF cfg.shouldCompactFn = "unset" THEN AtThreshold
                    ELSE cfg.shouldCompactFn = "true" )
        /\ (sendPc' = "compacting" => agentCalls' = 0 /\ gen' = IdleGen)
        /\ (sendPc' # "compacting" =>
              /\ agentCalls' = 1
              /\ \A i \in 1..Len(out') : out'[i].type # "compaction.start") ]_vars

\* C17 witness: the second send of a session without a custom predicate,
\* whose last step reported an input-token count equal to the threshold,
\* is compacting before its first agent call.
C17_Witness ==
  /\ sendPc = "compacting"
  /\ turns = 2
  /\ cfg.shouldCompactFn = "unset"
  /\ lastInputTokens = OrZero(cfg.contextWindow) - cfg.reservedTokens
  /\ agentCalls = 0

IsCompactionEvent(e) ==
  e.type \in { "compaction.start", "compaction.pruned", "compaction.summary",
               "compaction.done" }

\* C18: compaction is never interleaved with a turn.  In every send all
\* compaction events come after turn.start and before the first event of
\* the first agent attempt (nothing but turn.start and compaction events
\* precedes them), there is at most one compaction.start, and while the
\* strategy is awaited, the only place where compaction replaces
\* session.messages, agent.run has not been invoked for the turn.
C18_CompactionBeforeTurn ==
  /\ \A i \in 1..Len(out) :
       IsCompactionEvent(out[i]) =>
         /\ i > 1
         /\ out[1].type = "turn.start"
         /\ \A j \in 2..i : IsCompactionEvent(out[j])
  /\ Cardinality({ i \in 1..Len(out) : out[i].type = "compaction.start" }) <= 1
  /\ sendPc = "compacting" =>
       /\ agentCalls = 0
       /\ gen = IdleGen
       /\ out = << EvTurnStart(turns), EvCompactionStart("overflow") >>
  /\ sendPc \in { "running", "sleeping", "sleepingInCatch", "after", "done" } =>
       agentCalls >= 1

\* C18 witness: a send compacted (the history was replaced by a summary),
\* its first attempt was retried, and the turn finished.
C18_Witness ==
  /\ sendPc = "done"
  /\ agentCalls = 2
  /\ \E i \in 1..Len(out) : out[i].type = "compaction.summary"
  /\ \E i \in 1..Len(out) : out[i].type = "retry"
  /\ out[Len(out)].type = "turn.done"

\* ----------------------------- properties: the default compaction strategy

RECURSIVE SuffixTokens(_, _)
\* The estimated tokens of the messages from the i-th on.
SuffixTokens(h, i) ==
  IF i > Len(h) THEN 0 ELSE estimateMessageTokens(h[i]) + SuffixTokens(h, i + 1)

\* The first message of the protected suffix: the most recent messages
\* that make up the protected budget, or the whole history when all of it
\* is below the budget.
ProtectedFrom(h, protectedTokens) ==
  LET covering == { i \in 1..(Len(h) + 1) : SuffixTokens(h, i) >= protectedTokens }
  IN IF covering = {} THEN 1 ELSE CHOOSE i \in covering : \A j \in covering : j <= i

\* Message b is message a, but for tool-result payloads replaced by the
\* placeholder.
OnlyPayloadsReplaced(a, b) ==
  /\ b.role = a.role
  /\ b.content.isArray = a.content.isArray
  /\ b.content.str = a.content.str
  /\ Len(b.content.parts) = Len(a.content.parts)
  /\ \A k \in 1..Len(a.content.parts) :
       \/ b.content.parts[k] = a.content.parts[k]
       \/ /\ a.content.parts[k].type = "tool-result"
          /\ b.content.parts[k] = ToolResultPart(PrunedPlaceholder)

\* C19: protected tokens are never pruned.  For every history and setting,
\* after the pruning of the default strategy the messages of the protected
\* suffix (the whole history when it is below protectedTokens) are
\* identical to the input, and older messages differ from the input only
\* in tool-result payloads replaced by the placeholder.
C19_ProtectedNeverPruned ==
  compactPc # "ready" =>
    LET h == context.messages
        q == pruned.messages
        from == ProtectedFrom(h, strategy.protectedTokens)
    IN /\ Len(q) = Len(h)
       /\ \A i \in 1..Len(h) :
            IF i >= from THEN q[i] = h[i] ELSE OnlyPayloadsReplaced(h[i], q[i])

\* The roles of a history, in order.
Roles(h) == [i \in 1..Len(h) |-> h[i].role]

\* compact resolved by pruning only: no model call, no summary.
PruningOnly ==
  /\ compactPc = "returned"
  /\ modelCalls = 0
  /\ compaction.summary = Undefined

\* The first sentence of C20: when pruning saves at least minPruneSavings,
\* compact returns the pruned history with no model call and no summary,
\* messagesRemoved = 0 and tokensPruned >= minPruneSavings, and the result
\* has the messages of the input in number, order and roles.
PrunedHistoryReturned ==
  (compactPc # "ready" /\ pruned.tokensSaved >= strategy.minPruneSavings) =>
    /\ PruningOnly
    /\ compaction.messages = pruned.messages
    /\ compaction.messagesRemoved = 0
    /\ compaction.tokensPruned >= strategy.minPruneSavings
    /\ Len(compaction.messages) = Len(context.messages)
    /\ Roles(compaction.messages) = Roles(context.messages)

RECURSIVE PayloadChars(_)
\* The characters of the tool-result payloads of a list of parts.
PayloadChars(parts) ==
  IF parts = << >> THEN 0
  ELSE (IF Head(parts).type = "tool-result" THEN Head(parts).result.len ELSE 0)
       + PayloadChars(Tail(parts))

RECURSIVE ToolResultTokens(_, _)
\* The tokens (characters / 4) of tool-result content in the first n
\* messages of a history.
ToolResultTokens(h, n) ==
  IF n = 0 THEN 0
  ELSE ToolResultTokens(h, n - 1)
       + (IF h[n].role = "tool" THEN PayloadChars(h[n].content.parts) \div 4 ELSE 0)

RECURSIVE PlaceholderSavings(_, _)
\* What the estimate of the first n messages loses when their tool-result
\* payloads become the placeholder.
PlaceholderSavings(h, n) ==
  IF n = 0 THEN 0
  ELSE PlaceholderSavings(h, n - 1)
       + (IF h[n].role = "tool"
          THEN estimateMessageTokens(h[n])
               - estimateMessageTokens(
                   [h[n] EXCEPT !.content.parts =
                      [k \in 1..Len(@) |->
                         IF @[k].type = "tool-result"
                         THEN ToolResultPart(PrunedPlaceholder) ELSE @[k]]])
          ELSE 0)

DefaultStrategy ==
  /\ strategy.protectedTokens = 40000
  /\ strategy.minPruneSavings = 20000

C21_TokensPrunedIsDifference ==
  (compactPc = "returned" /\ compaction.summary = Undefined)
  => compaction.tokensPruned
       = defaultEstimateTokens(context.messages)
         - defaultEstimateTokens(compaction.messages)


\* A history that needs no compaction: pruning falls short of the minimum
\* savings and the estimate is below the target.
AlreadyMinimal ==
  /\ pruneToolResults(context.messages, strategy.protectedTokens,
                      strategy.minPruneSavings).tokensSaved < strategy.minPruneSavings
  /\ context.totalTokens < context.targetTokens

\* A history that is the summary message of an earlier compaction.
IsSummaryHistory(h) == \E summary \in Summaries : h = << SummaryMessage(summary) >>

\* Pruning returns the summary message of an earlier compaction as it is.
SummaryNotPruned ==
  IsSummaryHistory(context.messages)
  => pruneToolResults(context.messages, strategy.protectedTokens,
                      strategy.minPruneSavings).messages = context.messages

\* C22: compaction is idempotent on an already-minimal history: when
\* pruning saves less than the minimum and the estimate of the history is
\* below the target, compact calls no model and returns the history as it
\* is; and pruning does not alter the summary message of an earlier
\* compaction.
C22_MinimalHistoryUnchanged ==
  /\ (compactPc # "ready" /\ AlreadyMinimal)
     => /\ modelCalls = 0
        /\ compactPc = "returned"
        /\ compaction.messages = context.messages
  /\ SummaryNotPruned

\* What the pruning of a history saves, before the savings test.
SavedByPruning(h, protectedTokens) ==
  LET boundary == Boundary(h, protectedTokens)
      result == [i \in 1..Len(h) |-> PruneMessage(h, i, boundary)]
  IN SumSaved(h, result, Len(h), boundary)

\* The message is a user message whose text is the summary between the
\* two continuation markers.
EmbedsSummary(msg, summary) ==
  /\ msg.role = "user"
  /\ ~msg.content.isArray
  /\ msg.content.str.chars
       = "[Previous conversation summary]\n\n" \o summary.chars
         \o "\n\n[The conversation continues from here]"

\* C23: when pruning does not reach the minimum savings, compact replaces
\* the entire history with exactly one user message that embeds the model's
\* summary between the continuation markers, returns that summary and
\* reports messagesRemoved as the input length minus one.
C23_SummaryReplacesHistory ==
  ( /\ compactPc = "returned"
    /\ SavedByPruning(context.messages, strategy.protectedTokens) < strategy.minPruneSavings )
  => /\ modelCalls = 1
     /\ Len(compaction.messages) = 1
     /\ \E summary \in Summaries :
          /\ compaction.summary = Some(summary)
          /\ EmbedsSummary(compaction.messages[1], summary)
     /\ compaction.messagesRemoved = Len(context.messages) - 1

\* The same for the strategies with a positive minimum.
C23_SummaryReplacesHistoryPositiveMin ==
  strategy.minPruneSavings > 0 => C23_SummaryReplacesHistory

\* The tool-call ids a message requests and the ones it answers.
CallsOf(msg) ==
  IF msg.content.isArray
  THEN { msg.content.parts[k].toolCallId :
           k \in { j \in 1..Len(msg.content.parts) : msg.content.parts[j].type = "tool-call" } }
  ELSE { }

ResultsOf(msg) ==
  IF msg.content.isArray
  THEN { msg.content.parts[k].toolCallId :
           k \in { j \in 1..Len(msg.content.parts) : msg.content.parts[j].type = "tool-result" } }
  ELSE { }

\* No tool result without a tool call of the same id in an earlier message.
WellFormed(h) ==
  \A i \in 1..Len(h) :
    \A id \in ResultsOf(h[i]) : \E j \in 1..(i - 1) : id \in CallsOf(h[j])

\* The shape of a history: per message its role and the ids of its parts.
Shape(h) ==
  [i \in 1..Len(h) |-> [role |-> h[i].role, calls |-> CallsOf(h[i]),
                        results |-> ResultsOf(h[i])]]

\* C24: compaction preserves the well-formedness of the history: after a
\* pass of the default strategy (pruning or summarization) on a history in
\* which every tool result follows its tool call, the result holds no tool
\* result without its preceding tool call; and pruning leaves the number of
\* messages, their order, their roles and the tool-call ids unchanged.
C24_WellFormednessPreserved ==
  compactPc = "returned"
  => /\ WellFormed(context.messages) => WellFormed(compaction.messages)
     /\ compaction.summary = Undefined
        => Shape(compaction.messages) = Shape(context.messages)
     /\ Shape(pruned.messages) = Shape(context.messages)

\* A well-formed history with a tool call and its result was pruned.
C24_Witness ==
  /\ compactPc = "returned"
  /\ compaction.summary = Undefined
  /\ WellFormed(context.messages)
  /\ \E i \in 1..Len(context.messages) :
       /\ ResultsOf(context.messages[i]) # { }
       /\ compaction.messages[i] # context.messages[i]
       /\ compaction.messages[i].content.parts[1].result = PrunedPlaceholder

\* ------------------------------- properties: faults, hooks and the usage

HasEvent(evs, t) == \E i \in 1..Len(evs) : evs[i].type = t

\* C25: if the compaction strategy (or the onCompaction hook) rejects during
\* the compaction of a send, the rejection leaves send: agent.run is not
\* invoked for that turn, no compaction.done and no turn.done is emitted,
\* nothing is saved and session.messages is as it was before the send.
C25_CompactionFaultAborts ==
  /\ [][ (sendPc = "compacting" /\ sendPc' # "compacting"
          /\ ~HasEvent(out', "compaction.done"))
         => /\ sendPc' = "threw"
            /\ agentCalls' = 0
            /\ out' = out
            /\ messages' = messages
            /\ messages' = send'.snapshot
            /\ saves' = saves
            /\ totalUsage' = totalUsage ]_vars
  /\ [][ sendPc = "threw"
         => /\ sendPc' = "idle"
            /\ messages' = messages
            /\ saves' = saves
            /\ ~HasEvent(out, "turn.done") ]_vars

\* The second send of a session found the context over the threshold and
\* its compaction rejected.
C25_Witness ==
  /\ sendPc = "threw"
  /\ turns = 2
  /\ agentCalls = 0
  /\ messages # << >>
  /\ out = << EvTurnStart(2), EvCompactionStart("overflow") >>

\* C26: if the abort signal fires while send waits out a retry delay (or is
\* already aborted when the delay starts), send rejects with the abort
\* reason at once: no further agent.run attempt is started and no further
\* event is yielded, whatever the retryable predicate says about the reason.
C26_AbortEndsSendAtOnce ==
  [][ (sendPc \in { "sleeping", "sleepingInCatch" } /\ signal)
      => /\ sendPc' = "threw"
         /\ out' = out
         /\ agentCalls' = agentCalls ]_vars

\* What does hold of an aborted delay: no further attempt is started.
AbortStartsNoAttempt ==
  [][ (sendPc \in { "sleeping", "sleepingInCatch" } /\ signal)
      => /\ sendPc' \in { "sleepingInCatch", "threw" }
         /\ agentCalls' = agentCalls ]_vars

\* C27: after the retry loop of a send the steps happen in this order, each
\* exactly once: onAfterResponse is called with the turn's final usage and
\* messages, then the store's save with the current messages, then the
\* usage is added to totalUsage and turn.done is emitted; for every turn
\* that ends with a done event, done(error) included.
C27_AfterLoopOrder ==
  /\ [][ /\ sendPc = "after"
            => /\ sendPc' = "saving"
               /\ afterResponseCalls'
                    = IF cfg.onAfterResponse
                      THEN << TurnInfo(send.turnNumber, messages, send.turnUsage) >>
                      ELSE << >>
               /\ saves' = saves /\ totalUsage' = totalUsage /\ out' = out
               /\ messages' = messages
         /\ sendPc = "saving"
            => /\ sendPc' = "accumulating"
               /\ saves' = IF cfg.sessionStore THEN Append(saves, messages) ELSE saves
               /\ afterResponseCalls' = afterResponseCalls
               /\ totalUsage' = totalUsage /\ out' = out /\ messages' = messages
         /\ sendPc = "accumulating"
            => /\ sendPc' = "done"
               /\ \A f \in { "inputTokens", "outputTokens", "totalTokens" } :
                    OrZero(totalUsage'[f]) = OrZero(totalUsage[f]) + OrZero(send.turnUsage[f])
               /\ out' = Append(out, EvTurnDone(send.turnNumber, send.turnUsage))
               /\ saves' = saves /\ afterResponseCalls' = afterResponseCalls
               /\ messages' = messages
         /\ sendPc' = "saving" => sendPc = "after"
         /\ sendPc' = "accumulating" => sendPc = "saving"
         /\ sendPc' = "done" => sendPc = "accumulating" ]_vars
  /\ [] ( (out # << >> /\ out[Len(out)].type = "done")
          => /\ sendPc \in { "after", "saving", "accumulating" }
             /\ send.turnUsage = out[Len(out)].totalUsage
             /\ messages = out[Len(out)].messages )

\* A turn that ended with done(error) went through the hook, the save and
\* turn.done.
C27_Witness ==
  /\ sendPc = "done"
  /\ cfg.onAfterResponse /\ cfg.sessionStore
  /\ \E i \in 1..Len(out) : out[i].type = "done" /\ out[i].result = "error"
  /\ afterResponseCalls = << TurnInfo(turns, messages, UnsetUsage) >>
  /\ saves # << >> /\ saves[Len(saves)] = messages
  /\ out[Len(out)] = EvTurnDone(turns, UnsetUsage)

UsageFields == { "inputTokens", "outputTokens", "totalTokens" }

\* C28: across any sequence of sends and compactions no field of totalUsage
\* ever decreases; a completed send raises it by exactly the usage of its
\* turn.done event, an unset field counting as 0; and compaction changes
\* the messages but never the totals.
C28_TotalUsageMonotone ==
  [][ /\ \A f \in UsageFields : OrZero(totalUsage'[f]) >= OrZero(totalUsage[f])
      /\ (totalUsage' # totalUsage \/ (out' # out /\ out' # << >>
                                       /\ out'[Len(out')].type = "turn.done"))
         => /\ out' = Append(out, out'[Len(out')])
            /\ out'[Len(out')].type = "turn.done"
            /\ \A f \in UsageFields :
                 /\ totalUsage'[f] # Undefined
                 /\ OrZero(totalUsage'[f])
                      = OrZero(totalUsage[f]) + OrZero(out'[Len(out')].usage[f])
      /\ sendPc = "compacting" => totalUsage' = totalUsage ]_vars

\* Two completed sends with usage, the second one after a compaction.
C28_Witness ==
  /\ sendPc = "done"
  /\ turns = 2
  /\ HasEvent(out, "compaction.done")
  /\ out[Len(out)] = EvTurnDone(2, Usage(Some(1), Some(1), Some(2)))
  /\ totalUsage = Usage(Some(2), Some(2), Some(4))

\* C29: the onError hook can suppress an error: an error for which the hook
\* returned true is not surfaced to the consumer as a retry or error event.
C29_SuppressedNotSurfaced ==
  \A i \in 1..Len(onErrorCalls) :
    OnErrorHook(onErrorCalls[i][1], onErrorCalls[i][2]) = Some(TRUE)
    => ~\E k \in 1..Len(out) :
          /\ out[k].type \in { "retry", "error" }
          /\ out[k].error = onErrorCalls[i][1]

\* C30: every agent.run attempt of a send, retried attempts included, is
\* preceded by an invocation of the onBeforeSend hook on the session's
\* current messages, and the attempt runs on the hook's result.
C30_HookBeforeEachAttempt ==
  (cfg.onBeforeSend /\ agentCalls >= 1)
  => /\ Len(beforeSendCalls) = agentCalls
     /\ send.effectiveMessages = BeforeSendHook(beforeSendCalls[Len(beforeSendCalls)])

\* What does hold: the hook is invoked once per send, before the first
\* attempt, and every attempt of the send runs on that result.
HookOncePerSend ==
  (cfg.onBeforeSend /\ agentCalls >= 1)
  => /\ Len(beforeSendCalls) = 1
     /\ send.effectiveMessages = BeforeSendHook(beforeSendCalls[1])
     /\ sendPc = "running" => gen.input = send.input

\* ------------------------- properties: events, instructions and the turn

\* The events Session.compact yields for the result the strategy resolved to.
PassEvents == CompactionEvents(compaction)

\* C31: in every compaction pass, compaction.pruned is emitted only when the
\* pass was resolved by phase-1 tool-result pruning and compaction.summary
\* only when it was resolved by phase-2 summarization; a pass resolved by
\* summarization does not emit compaction.pruned.
C31_EventNamesPhase ==
  compactPc = "returned"
  => /\ HasEvent(PassEvents, "compaction.pruned") => modelCalls = 0
     /\ HasEvent(PassEvents, "compaction.summary") => modelCalls = 1
     /\ modelCalls = 1 => ~HasEvent(PassEvents, "compaction.pruned")

\* What does hold: compaction.summary is emitted exactly for the passes
\* resolved by summarization, and compaction.pruned for every pass that
\* reports a positive token difference, whichever phase resolved it.
SummaryEventIffSummarized ==
  compactPc = "returned"
  => /\ HasEvent(PassEvents, "compaction.summary") <=> modelCalls = 1
     /\ HasEvent(PassEvents, "compaction.pruned") <=> compaction.tokensPruned > 0

\* C32: project instructions are loaded once per executor lifetime: across
\* any sequence of run calls on one Agent, run calls started before an
\* earlier load has resolved and a first load that found nothing included,
\* loadInstructions is invoked at most once, and never when `instructions`
\* is false.
C32_LoadedOnce ==
  /\ loadCalls <= 1
  /\ ~instructions => loadCalls = 0

\* What does hold: no load is started once a load has resolved, whatever it
\* found; a run call started before that starts a load of its own, and each
\* load that resolves is cached; nothing is loaded when `instructions` is
\* false.
LoadOncePerResolvedLoad ==
  /\ [][ loadCalls' # loadCalls
         => /\ instructions
            /\ ~cachedInstructions.loaded
            /\ loadCalls' = loadCalls + 1 ]_vars
  /\ [][ cachedInstructions' # cachedInstructions
         => \E k \in 1..Len(runCalls) :
              /\ runCalls[k].pc = "loading"
              /\ runCalls'[k].pc = "streaming"
              /\ cachedInstructions'.loaded ]_vars
  /\ [] (loadCalls <= Len(runCalls))
  /\ [] (~instructions => loadCalls = 0 /\ ~cachedInstructions.loaded)

\* The retry events of attempt a that carry the error err.
RetriesCarrying(evs, a, err) ==
  { j \in RetryEvents(evs, a) : evs[j].error = err }

\* The calls of onError with the error err and the attempt a.
ErrorCallsWith(calls, a, err) ==
  { i \in 1..Len(calls) : calls[i][1] = err /\ calls[i][2] = a }

\* C33: an error that causes a retry is replaced, not forwarded: the error
\* event that triggers the retry and the done event the agent would emit
\* after it are never yielded to the consumer; for that attempt the consumer
\* sees a single retry event carrying the error, and the onError hook has
\* been called exactly once with that error and attempt index before the
\* retry event is yielded.
C33_RetriedErrorReplaced ==
  /\ [][ (sendPc = "running" /\ sendPc' = "sleeping")
         => LET new == NewEvents(gen, gen')
            IN \E i \in 1..Len(new) :
                 /\ new[i].type = "error"
                 /\ \A j \in 1..(i - 1) : new[j].type \notin { "error", "done" }
                 /\ out' = out \o SubSeq(new, 1, i - 1)
                           \o << EvRetry(send.attempt, cfg.maxRetries, new[i].error) >>
                 /\ onErrorCalls'
                      = Append(onErrorCalls, << new[i].error, send.attempt, Len(out') - 1 >>)
                 /\ gen'.pc = "returned" ]_vars
  /\ [] \A k \in 1..Len(out) :
          (sendPc # "idle" /\ out[k].type = "retry")
          => /\ Cardinality(RetriesCarrying(out, out[k].attempt, out[k].error)) = 1
             /\ Cardinality(ErrorCallsWith(onErrorCalls, out[k].attempt, out[k].error)) = 1
             /\ \A i \in ErrorCallsWith(onErrorCalls, out[k].attempt, out[k].error) :
                  onErrorCalls[i][3] = k - 1
             /\ \A j \in 1..(k - 1) :
                  /\ out[j].type # "done"
                  /\ (out[j].type = "error" /\ out[j].error = out[k].error)
                     => \E r \in (j + 1)..(k - 1) : out[r].type = "retry"

\* An attempt threw a retryable fault: the agent yielded error and done,
\* the consumer of send got the retry event alone, after the hook's call.
C33_Witness ==
  /\ sendPc = "sleeping"
  /\ HasEvent(gen.out, "error") /\ HasEvent(gen.out, "done")
  /\ out = << EvTurnStart(1), EvRetry(0, cfg.maxRetries, ErrOverloaded) >>
  /\ onErrorCalls = << << ErrOverloaded, 0, 1 >> >>

\* The positions of the retry events among the events of a send, in order.
RetryPositions(evs) == { k \in 1..Len(evs) : evs[k].type = "retry" }

\* C34: within one send the retry events carry the attempt indices 0, 1, 2,
\* ... in strictly increasing order without repetition: at most one retry
\* event is emitted per attempt, on every path, a failure or abort of the
\* backoff delay included.
C34_RetryAttemptsIncrease ==
  \A k \in RetryPositions(out) :
    out[k].attempt = Cardinality({ j \in RetryPositions(out) : j < k })

\* What does hold: the attempt indices of the retry events never decrease,
\* the retries that follow an event or fault of the agent are numbered 0,
\* 1, 2, ..., and an attempt index is repeated only by the retry event that
\* carries the abort reason of that attempt's backoff.
RetryAttemptsNeverDecrease ==
  \A k \in RetryPositions(out) :
    LET before == { j \in RetryPositions(out) : j < k }
        agentRetries == { j \in before : out[j].error \notin AbortReasons }
    IN /\ \A j \in before : out[j].attempt <= out[k].attempt
       /\ out[k].error \notin AbortReasons => out[k].attempt = Cardinality(agentRetries)
       /\ out[k].error \in AbortReasons
          => /\ k > 1 /\ out[k - 1].type = "retry"
             /\ out[k - 1].attempt = out[k].attempt
             /\ out[k - 1].error \notin AbortReasons

\* C35: every send emits turn.start as its first event, and every send that
\* does not throw emits turn.done as its last event, each exactly once and
\* both with the same turnNumber, which equals the value of `turns` after
\* the increment; the turn numbers of successive sends are 1, 2, 3, ....
C35_TurnStartAndDone ==
  /\ [][ (sendPc = "idle" /\ sendPc' # "idle")
         => /\ turns' = turns + 1
            /\ out' # << >>
            /\ out'[1].type = "turn.start"
            /\ out'[1].turnNumber = turns' ]_vars
  /\ [][ sendPc # "idle" => turns' = turns ]_vars
  /\ [] (sendPc # "idle"
         => /\ EventsOfType(out, "turn.start") = { 1 }
            /\ out[1].turnNumber = turns
            /\ EventsOfType(out, "turn.done") \subseteq { Len(out) }
            /\ HasEvent(out, "turn.done") <=> sendPc = "done"
            /\ sendPc = "done" => out[Len(out)].turnNumber = out[1].turnNumber)
  /\ [][ (sendPc = "done" \/ sendPc = "threw") => sendPc' = "idle" ]_vars

\* The second send of a session completed: turn.start and turn.done of
\* turn 2, after a retry.
C35_Witness ==
  /\ sendPc = "done"
  /\ turns = 2
  /\ HasEvent(out, "retry")
  /\ out[1] = [type |-> "turn.start", turnNumber |-> 2]
  /\ out[Len(out)].type = "turn.done" /\ out[Len(out)].turnNumber = 2

\* The steps of send after its retry loop.
AfterLoop == { "after", "saving", "accumulating", "done" }

\* C36: if send throws before its retry loop resolves (a thrown fault that
\* is not retried, or an abort during a backoff delay), then for that send
\* no turn.done is emitted, the onAfterResponse hook and the store's save
\* are not called, and totalUsage is unchanged, while `turns` stays
\* incremented.
C36_ThrowSkipsAfterLoop ==
  /\ [] (sendPc = "threw"
         => /\ ~HasEvent(out, "turn.done")
            /\ afterResponseCalls = << >>
            /\ turns = out[1].turnNumber)
  /\ [][ /\ sendPc' = "threw" => sendPc \in { "compacting", "sleeping", "sleepingInCatch" }
         /\ sendPc = "threw" => sendPc' = "idle" /\ turns' = turns
         /\ (sendPc' \in AfterLoop /\ sendPc' # sendPc)
            => \/ sendPc \in AfterLoop
               \/ sendPc = "running" /\ sendPc' = "after"
         /\ sendPc \in AfterLoop => sendPc' \in AfterLoop \cup { "idle" }
         /\ sendPc \notin AfterLoop
            => /\ saves' = saves
               /\ totalUsage' = totalUsage
               /\ afterResponseCalls' = << >>
               /\ ~HasEvent(out', "turn.done") ]_vars

\* The second send of a session with hook and store threw out of an aborted
\* backoff: the total and the saves are those of the first send.
C36_Witness ==
  /\ sendPc = "threw"
  /\ signal
  /\ cfg.onAfterResponse /\ cfg.sessionStore
  /\ turns = 2
  /\ HasEvent(out, "retry")
  /\ Len(saves) = 1
  /\ totalUsage = Usage(Some(1), Some(1), Some(2))
  /\ afterResponseCalls = << >>

\* The step.done events among the events of a send.
StepsDone(evs) == { k \in 1..Len(evs) : evs[k].type = "step.done" }

\* The threshold of the default trigger.
Threshold(c) == OrZero(c.contextWindow) - c.reservedTokens

\* A step.done event of the send reported an input-token count at or above
\* the threshold.
StepReportedOverflow ==
  \E k \in StepsDone(out) : OrZero(out[k].usage.inputTokens) >= Threshold(cfg)

\* C37: a compaction pass clears the overflow condition: after a send has
\* compacted, the next send does not compact again unless a step.done event
\* observed in between reported an input-token count at or above
\* contextWindow - reservedTokens (default trigger), also when the turn in
\* between failed before any step finished.
C37_CompactionClearsOverflow ==
  [][ (/\ sendPc = "idle" /\ sendPc' # "idle"
       /\ cfg.shouldCompactFn = "unset"
       /\ HasEvent(out, "compaction.done")
       /\ ~StepReportedOverflow)
      => sendPc' # "compacting" ]_vars

\* What does hold: the trigger follows the latest step.done event alone.  A
\* send that compacted and finished a step leaves the overflow condition as
\* that step reported it; one that finished no step leaves it standing.
OverflowFollowsLastStep ==
  (SendEnded /\ cfg.shouldCompactFn = "unset" /\ HasEvent(out, "compaction.done"))
  => IF StepsDone(out) = { }
     THEN AutoCompacts(cfg, lastInputTokens)
     ELSE LET last == CHOOSE k \in StepsDone(out) : \A j \in StepsDone(out) : j <= k
          IN /\ lastInputTokens = OrZero(out[last].usage.inputTokens)
             /\ AutoCompacts(cfg, lastInputTokens)
                <=> OrZero(out[last].usage.inputTokens) >= Threshold(cfg)

\* The link to the next send: the end of a send leaves the session's
\* configuration and lastInputTokens as they are, and a send compacts
\* exactly when the trigger holds of the state it is called in.
NextSendFollowsTrigger ==
  [][ /\ SendEnded => (lastInputTokens' = lastInputTokens /\ cfg' = cfg)
      /\ (sendPc = "idle" /\ sendPc' # "idle")
         => /\ lastInputTokens' = lastInputTokens
            /\ sendPc' = "compacting" <=> AutoCompacts(cfg, lastInputTokens) ]_vars

\* The positions of the done events among the events of a send.
DoneEvents(evs) == EventsOfType(evs, "done")

StartsWith(msgs, prefix) ==
  /\ Len(prefix) <= Len(msgs)
  /\ SubSeq(msgs, 1, Len(prefix)) = prefix

C39_NeverGrows ==
  compactPc = "returned"
  => /\ Len(compaction.messages) <= Len(context.messages)
     /\ compaction.messagesRemoved >= 0

\* What does hold: the result of a pruning has the length of the input and
\* that of a summarization is one message, so the history grows exactly
\* when the empty history is summarized; messagesRemoved is then -1.
GrowsOnlyFromEmpty ==
  compactPc = "returned"
  => /\ modelCalls = 0 => Len(compaction.messages) = Len(context.messages)
     /\ modelCalls = 1 => Len(compaction.messages) = 1
     /\ compaction.messagesRemoved = IF modelCalls = 1 THEN Len(context.messages) - 1 ELSE 0
     /\ context.messages # << >>
        => /\ Len(compaction.messages) <= Len(context.messages)
           /\ compaction.messagesRemoved >= 0

\* The usage a completed send reports: that of its last done event, all
\* unset when the agent yielded none.
FinalUsage(evs) ==
  IF DoneEvents(evs) = { } THEN UnsetUsage
  ELSE evs[CHOOSE k \in DoneEvents(evs) : \A j \in DoneEvents(evs) : j <= k].totalUsage

\* C40: the usage of a turn is that of its final attempt only: the usage in
\* turn.done, and the amount added to totalUsage, equals the totalUsage of
\* the last done event of the send (all unset, counted as 0, when the turn
\* ended in a caught fault); token usage reported by step.done events of
\* attempts that were retried is never added.
C40_UsageOfFinalAttempt ==
  /\ [] (sendPc = "done"
         => /\ out[Len(out)].type = "turn.done"
            /\ out[Len(out)].usage = FinalUsage(out)
            /\ (gen.finish = NoFinish \/ gen.finish.rejected)
               => out[Len(out)].usage = UnsetUsage)
  /\ [][ (sendPc # "done" /\ sendPc' = "done")
         => \A f \in UsageFields :
              OrZero(totalUsage'[f]) = OrZero(totalUsage[f]) + OrZero(FinalUsage(out')[f]) ]_vars
  /\ [][ sendPc' # "done" => totalUsage' = totalUsage ]_vars

\* An attempt finished a step that reported tokens and was then retried,
\* and the turn ended in a caught fault: nothing was added to the total.
C40_Witness ==
  /\ sendPc = "done"
  /\ turns = 1
  /\ \E k \in StepsDone(out) :
       /\ OrZero(out[k].usage.inputTokens) > 0
       /\ \E r \in RetryPositions(out) : r > k
  /\ \E k \in DoneEvents(out) : out[k].result = "error"
  /\ out[Len(out)] = [type |-> "turn.done", turnNumber |-> 1, usage |-> UnsetUsage]
  /\ totalUsage = Usage(Some(0), Some(0), Some(0))

====
